---- MODULE Spec2Model ----
(***************************************************************************)
(* A model of the profile-analysis engine of MoveMyCode:                   *)
(*   - CachegrindParser.parse        (lib/cachegrind-parser.ts)            *)
(*   - the call-tree builder          (components/call-tree-viewer.tsx)    *)
(*   - CallTreeSearchEngine           (lib/call-tree-search.ts)            *)
(*   - EntryPointMatcher              (lib/entry-point-matcher.ts)         *)
(* Each part has its own specification over the shared variables; the      *)
(* variables of the other parts stay at their initial value.               *)
(***************************************************************************)
EXTENDS Integers, Sequences, FiniteSets, TLC

----------------------------------------------------------------------------
(* Bounds of the model *)

\* number of input lines one parse consumes
MaxLines == 6
MaxInstrLines == 7
MaxJumpLines == 6
MaxInFlight == 2
\* largest source line number of a data row
MaxLineNo == 2
\* largest count of a data row
MaxCount == 1
\* largest number of count columns of a data row
MaxCols == 1
\* largest value of a summary: line
MaxSummary == 2
\* largest number of nodes handed to the entry-point matcher
MaxNodes == 3
\* largest PC of a node handed to the entry-point matcher
MaxAddr == 3
\* largest number of calls of one function of a call graph
MaxFanout == 2
\* largest number of nodes handed to the search engine
MaxSearchNodes == 6
MaxSources == 2

----------------------------------------------------------------------------
(* Values *)

\* JavaScript's NaN, the result of parseInt on a non-integer field
NaN == -1
\* null / undefined / the empty string (all falsy)
None == "none"
\* the empty pcStart / pcEnd of a node without PC data
NoPc == -1

Files == {"a.c", "b.c"}
Fns == {"f", "g"}
Vocabularies == {<<"Ir">>, <<"Ir", "Cy">>}
\* program counters of the profile, as addresses (0x10, 0x14)
PCs == {16, 20}

Range(s) == {s[i] : i \in DOMAIN s}

EmptyMap == [x \in {} |-> 0]
Put(m, k, v) == [x \in DOMAIN m \cup {k} |-> IF x = k THEN v ELSE m[x]]

\* fields of a data row: an integer, a 0x-prefixed address, or anything else
IntTok(n) == [k |-> "int", v |-> n]
PcTok(a) == [k |-> "pc", v |-> a]
BadTok == [k |-> "bad", v |-> 0]

\* parseInt(x): digits give the number, "0x.." the hexadecimal value, else NaN
ParseInt(tok) == IF tok.k = "bad" THEN NaN ELSE tok.v

\* a + b of JavaScript numbers (NaN is absorbing)
Plus(a, b) == IF a = NaN \/ b = NaN THEN NaN ELSE a + b

\* x || 0 : undefined, NaN and 0 are falsy
OrZero(m, k) == IF k \in DOMAIN m /\ m[k] # NaN THEN m[k] ELSE 0

\* count > 0 (false for NaN)
Positive(c) == c # NaN /\ c > 0

LineToks == {IntTok(n) : n \in 1..MaxLineNo} \cup {BadTok}
CountToks == {IntTok(n) : n \in 0..MaxCount} \cup {BadTok}
CountSeqs == UNION {[1..n -> CountToks] : n \in 0..MaxCols}

\* the data rows of the input:  [PC] LINE COUNT*
LineRows == {<<l>> \o cs : l \in LineToks, cs \in CountSeqs}
PcRows == {<<PcTok(a)>> \o r : a \in PCs, r \in LineRows}
Rows == LineRows \cup PcRows

\* a row of subposition counts only, as a file without instruction positions
\* writes them
PlainRow == <<IntTok(1), IntTok(1)>>

\* /^0x[0-9a-fA-F]/ on a line
PcPrefixed(row) == Len(row) > 0 /\ row[1].k = "pc"

\* a coverage percentage  num / den  (JavaScript computes it in floating point)
Ratio(n, d) == [num |-> n, den |-> d]
RatioEq(p, q) == p.num * q.den = q.num * p.den

----------------------------------------------------------------------------
(* JavaScript strings: sequences of one-character strings *)

LowerLetters ==
  <<"a", "b", "c", "d", "e", "f", "g", "h", "i", "j", "k", "l", "m",
    "n", "o", "p", "q", "r", "s", "t", "u", "v", "w", "x", "y", "z">>
UpperLetters ==
  <<"A", "B", "C", "D", "E", "F", "G", "H", "I", "J", "K", "L", "M",
    "N", "O", "P", "Q", "R", "S", "T", "U", "V", "W", "X", "Y", "Z">>
HexDigits ==
  <<"0", "1", "2", "3", "4", "5", "6", "7", "8", "9",
    "a", "b", "c", "d", "e", "f">>
DecimalDigits == {"0", "1", "2", "3", "4", "5", "6", "7", "8", "9"}
Whitespace == {" ", "\t", "\n"}

IndexIn(seq, c) == CHOOSE i \in DOMAIN seq : seq[i] = c

ToLowerChar(c) ==
  IF c \in Range(UpperLetters) THEN LowerLetters[IndexIn(UpperLetters, c)]
  ELSE c

\* String.prototype.toLowerCase
ToLowerCase(s) == [i \in DOMAIN s |-> ToLowerChar(s[i])]

\* String.prototype.substring(from, to): 0-based, end-exclusive, clamped
Substring(s, from, to) ==
  LET lo == IF from < 0 THEN 0 ELSE IF from > Len(s) THEN Len(s) ELSE from
      hi == IF to < 0 THEN 0 ELSE IF to > Len(s) THEN Len(s) ELSE to
  IN IF lo <= hi THEN SubSeq(s, lo + 1, hi) ELSE SubSeq(s, hi + 1, lo)

\* String.prototype.trim
RECURSIVE TrimStart(_)
TrimStart(s) ==
  IF s # <<>> /\ Head(s) \in Whitespace THEN TrimStart(Tail(s)) ELSE s

RECURSIVE TrimEnd(_)
TrimEnd(s) ==
  IF s # <<>> /\ s[Len(s)] \in Whitespace
    THEN TrimEnd(SubSeq(s, 1, Len(s) - 1))
    ELSE s

Trim(s) == TrimEnd(TrimStart(s))

\* String.prototype.startsWith, String.prototype.includes
StartsWith(s, p) == Len(p) <= Len(s) /\ SubSeq(s, 1, Len(p)) = p

Includes(s, p) ==
  \E i \in 0..(Len(s) - Len(p)) : SubSeq(s, i + 1, i + Len(p)) = p

IsHexChar(c) == ToLowerChar(c) \in Range(HexDigits)
HexValue(c) == IndexIn(HexDigits, ToLowerChar(c)) - 1

\* parseInt(s, 16): leading whitespace and an optional 0x are dropped, the
\* longest run of hexadecimal digits is read, NaN when there is none
RECURSIVE HexRun(_, _)
HexRun(s, acc) ==
  IF s # <<>> /\ IsHexChar(Head(s))
    THEN HexRun(Tail(s), acc * 16 + HexValue(Head(s)))
    ELSE acc

ParseInt16(s) ==
  LET t == TrimStart(s)
      u == IF Len(t) >= 2 /\ t[1] = "0" /\ t[2] \in {"x", "X"}
             THEN SubSeq(t, 3, Len(t)) ELSE t
  IN IF u # <<>> /\ IsHexChar(Head(u)) THEN HexRun(u, 0) ELSE NaN

\* the text "0x<digits>" of an address, as callgrind writes it
RECURSIVE HexText(_)
HexText(n) ==
  IF n < 16 THEN <<HexDigits[n + 1]>>
  ELSE HexText(n \div 16) \o <<HexDigits[(n % 16) + 1]>>

HexString(n) == <<"0", "x">> \o HexText(n)

----------------------------------------------------------------------------
(* State *)

VARIABLES
  phase,                \* "parsing", "parsed" (parse returned), "threw", "built"
  nRead,                \* number of input lines consumed
  lineLimit,            \* history: the inputs considered have at most this many lines
  isCallgrind,          \* CachegrindParser.isCallgrind
  events,               \* CachegrindParser.events
  positions,            \* CachegrindParser.positions
  currentFile,          \* parse: currentFile
  currentFunction,      \* parse: currentFunction
  currentObjectFile,    \* CachegrindParser.currentObjectFile
  pendingCallFile,      \* CachegrindParser.pendingCallFile
  pendingCallFunction,  \* CachegrindParser.pendingCallFunction
  filesData,            \* CachegrindParser.filesData
  fileOrder,            \* insertion order of the keys of filesData
  summary,              \* CachegrindParser.summary
  peeked,               \* what the last jump=/jcnd= did with the line after it:
                        \* "left" it, "skipped" it; "no" after any other line
  rowTotals,            \* history: per event, the sum of the data rows consumed
  conformant,           \* history: the input so far follows the grammar
  fileCoverage,         \* the fileCoverage of the returned CachegrindData
  rootNodes,            \* call-tree-viewer: callTreeData
  nodeMap,              \* call-tree-viewer: nodeMap (keys in insertion order)
  matcherNodes,         \* the nodeMap handed to EntryPointMatcher.buildIndex
  index,                \* EntryPointMatcher.index
  entryPoint,           \* the last argument of findEntryNode
  entryNode,            \* the last result of findEntryNode
  functionMap,          \* call-tree-viewer: functionMap (key -> child keys)
  rootQueue,            \* rootFunctionKeys not yet handed to buildTreeFromNode
  walkStack,            \* the activations of buildTreeFromNode, innermost last
  expansions,           \* history: the number of createNode calls
  cuts,                 \* history: the number of repeats answered with null
  walkSteps,            \* history: the number of steps taken
  searchNodes,          \* the nodes handed to CallTreeSearchEngine.buildIndex
  searchIndex,          \* CallTreeSearchEngine.index
  searchTerm,           \* the last argument of search
  searchResults,        \* the last result of search (the ids of the nodes)
  asmPc,                \* getAssemblyCode: "idle", "testing", "running", "returned"
  asmArgs,              \* getAssemblyCode: objectFile, startAddress, endAddress
  asmResult,            \* the value the last call of getAssemblyCode resolved to
  asmCaught,            \* history: the message of the error the outer catch got
  asmLog,               \* the console calls of the current call
  asmCause,             \* history: what made the current call end
  asmSeen,              \* history: cause -> the result last returned for it
  sourceFiles,          \* the sourceFiles record (entries in insertion order)
  srcSubdir,            \* localStorage 'profiler-src-subdir'
  pathArg,              \* the last filePath given to resolveSourcePath
  pathResult,           \* the last result of resolveSourcePath
  selection,            \* AssemblyViewer: the props objectFile and pcData
  assemblyData,         \* AssemblyViewer: the state assemblyData
  loading,              \* AssemblyViewer: the state loading
  error,                \* AssemblyViewer: the state error
  cacheKeyRef,          \* AssemblyViewer: cacheKeyRef.current
  assemblyCache,        \* assembly-viewer.tsx: assemblyCache (insertion order)
  inFlight              \* the calls of getAssemblyForFunction not yet settled:
                        \* the cache key of each fetchAssembly awaiting one

parserVars == <<phase, nRead, lineLimit, isCallgrind, events, positions, currentFile,
                currentFunction, currentObjectFile, pendingCallFile,
                pendingCallFunction, filesData, fileOrder, summary, peeked,
                rowTotals, conformant, fileCoverage>>
treeVars == <<rootNodes, nodeMap>>
matcherVars == <<matcherNodes, index, entryPoint, entryNode>>
walkVars == <<functionMap, rootQueue, walkStack, expansions, cuts, walkSteps>>
searchVars == <<searchNodes, searchIndex, searchTerm, searchResults>>
asmVars == <<asmPc, asmArgs, asmResult, asmCaught, asmLog, asmCause, asmSeen>>
pathVars == <<sourceFiles, srcSubdir, pathArg, pathResult>>
viewerVars == <<selection, assemblyData, loading, error, cacheKeyRef,
                assemblyCache, inFlight>>
serviceVars == <<asmVars, pathVars, viewerVars>>
viewVars == <<matcherVars, walkVars, searchVars, serviceVars>>

----------------------------------------------------------------------------
(* CachegrindParser.parse: one action per kind of input line *)

\* {lines: {}, totals: {event: 0}, coveredLines: [], uncoveredLines: [],
\*  coveragePercentage: 0.0, pcData: isCallgrind ? {} : undefined}
\* pcData keeps the insertion order of its keys (Object.keys order);
\* calls is undefined until the first push (the empty sequence here).
NewFunctionData ==
  [lines |-> EmptyMap,
   totals |-> [e \in Range(events) |-> 0],
   coveredLines |-> <<>>,
   uncoveredLines |-> <<>>,
   coveragePercentage |-> Ratio(0, 1),
   pcData |-> [defined |-> isCallgrind, order |-> <<>>, at |-> EmptyMap],
   calls |-> <<>>]

NewFileData ==
  [functions |-> EmptyMap, fnOrder |-> <<>>, objectFile |-> currentObjectFile]

\* this.filesData[currentFile].functions[currentFunction] is an object
HasRecord ==
  /\ currentFile # None
  /\ currentFunction # None
  /\ currentFunction \in DOMAIN filesData[currentFile].functions

CurrentRecord == filesData[currentFile].functions[currentFunction]

SetCurrentRecord(fd) ==
  [filesData EXCEPT ![currentFile].functions[currentFunction] = fd]

\* this.isCallgrind && this.positions.includes('instr')
InstrMode == isCallgrind /\ positions = "instr"

\* history: no body directive (fl=, fn=) has been read yet
InHeader == fileOrder = <<>> /\ currentFunction = None

\* the line is consumed by the loop of parse
Consume(n) ==
  /\ phase = "parsing"
  /\ nRead + n <= lineLimit
  /\ nRead' = nRead + n
  /\ lineLimit' = lineLimit
  /\ UNCHANGED <<treeVars, viewVars>>

\* lines[0] is "# callgrind format"
FormatLine ==
  /\ nRead = 0
  /\ Consume(1)
  /\ isCallgrind' = TRUE
  /\ peeked' = "no"
  /\ UNCHANGED <<events, positions, currentFile, currentFunction,
                 currentObjectFile, pendingCallFile, pendingCallFunction,
                 filesData, fileOrder, summary, rowTotals, conformant, fileCoverage, phase>>

\* blank lines, comments (cachegrind), cmd:, pid:, part:, cob=, fi=, fe=, jfi=
\* none of them starts with 0x
IgnoredLine ==
  /\ Consume(1)
  /\ peeked' = "no"
  /\ UNCHANGED <<isCallgrind, events, positions, currentFile, currentFunction,
                 currentObjectFile, pendingCallFile, pendingCallFunction,
                 filesData, fileOrder, summary, rowTotals, conformant, fileCoverage, phase>>

EventsLine(vocab) ==
  /\ Consume(1)
  /\ events' = vocab
  /\ peeked' = "no"
  /\ conformant' = (conformant /\ InHeader)
  /\ UNCHANGED <<isCallgrind, positions, currentFile, currentFunction,
                 currentObjectFile, pendingCallFile, pendingCallFunction,
                 filesData, fileOrder, summary, rowTotals, fileCoverage, phase>>

PositionsLine(p) ==
  /\ Consume(1)
  /\ positions' = p
  /\ peeked' = "no"
  /\ conformant' = (conformant /\ InHeader)
  /\ UNCHANGED <<isCallgrind, events, currentFile, currentFunction,
                 currentObjectFile, pendingCallFile, pendingCallFunction,
                 filesData, fileOrder, summary, rowTotals, fileCoverage, phase>>

FlLine(f) ==
  /\ Consume(1)
  /\ currentFile' = f
  /\ IF f \notin DOMAIN filesData
       THEN /\ filesData' = Put(filesData, f, NewFileData)
            /\ fileOrder' = Append(fileOrder, f)
       ELSE /\ filesData' = IF currentObjectFile # None
                              THEN [filesData EXCEPT ![f].objectFile = currentObjectFile]
                              ELSE filesData
            /\ fileOrder' = fileOrder
  /\ peeked' = "no"
  /\ UNCHANGED <<isCallgrind, events, positions, currentFunction,
                 currentObjectFile, pendingCallFile, pendingCallFunction,
                 summary, rowTotals, conformant, fileCoverage, phase>>

\* the record is assigned whether or not the file already has one of this name
FnRecord(name) == NewFunctionData

FnLine(name) ==
  /\ Consume(1)
  /\ currentFunction' = name
  /\ IF currentFile # None
       THEN filesData' =
              [filesData EXCEPT
                 ![currentFile].functions = Put(@, name, FnRecord(name)),
                 ![currentFile].fnOrder =
                    IF name \in DOMAIN filesData[currentFile].functions
                      THEN @ ELSE Append(@, name)]
       ELSE filesData' = filesData
  /\ peeked' = "no"
  /\ UNCHANGED <<isCallgrind, events, positions, currentFile,
                 currentObjectFile, pendingCallFile, pendingCallFunction,
                 fileOrder, summary, rowTotals, conformant, fileCoverage, phase>>

CfiLine(f) ==
  /\ Consume(1)
  /\ pendingCallFile' = f
  /\ peeked' = "no"
  /\ UNCHANGED <<isCallgrind, events, positions, currentFile, currentFunction,
                 currentObjectFile, pendingCallFunction, filesData, fileOrder,
                 summary, rowTotals, conformant, fileCoverage, phase>>

CfnLine(name) ==
  /\ Consume(1)
  /\ pendingCallFunction' = name
  /\ peeked' = "no"
  /\ UNCHANGED <<isCallgrind, events, positions, currentFile, currentFunction,
                 currentObjectFile, pendingCallFile, filesData, fileOrder,
                 summary, rowTotals, conformant, fileCoverage, phase>>

\* parseInt(parts[0]) || 1
CallCount(cnt) ==
  IF ParseInt(cnt) = NaN \/ ParseInt(cnt) = 0 THEN 1 ELSE ParseInt(cnt)

\* the CallInfo pushed by calls= ; row is a history field (the line that
\* followed the directive), which CallInfo does not have and no action reads
NewCallInfo(cnt, next) ==
  [targetFile |-> pendingCallFile,
   targetFunction |-> pendingCallFunction,
   count |-> CallCount(cnt),
   sourcePc |-> next[1].v,
   row |-> next]

\* calls=cnt ... followed by the line next, which the directive consumes.
\* (On the last line of the input the directive changes nothing, as when the
\* next line has no PC prefix.)
CallsLine(cnt, next) ==
  /\ Consume(2)
  /\ peeked' = "no"
  /\ IF PcPrefixed(next) /\ currentFunction # None /\ currentFile # None
       THEN IF HasRecord
              THEN /\ filesData' = SetCurrentRecord(
                        [CurrentRecord EXCEPT
                           !.calls = Append(@, NewCallInfo(cnt, next))])
                   /\ pendingCallFile' = None
                   /\ pendingCallFunction' = None
                   /\ phase' = phase
              ELSE \* currentFuncData is undefined: TypeError, not caught
                   /\ phase' = "threw"
                   /\ UNCHANGED <<filesData, pendingCallFile, pendingCallFunction>>
       ELSE UNCHANGED <<filesData, pendingCallFile, pendingCallFunction, phase>>
  /\ UNCHANGED <<isCallgrind, events, positions, currentFile, currentFunction,
                 currentObjectFile, fileOrder, summary, rowTotals, conformant,
                 fileCoverage>>

\* jcnd= / jump= : the next line is skipped when it starts with 0x, else it
\* is left for the loop (and is then known not to start with 0x)
\* jcnd= / jump= with an unconditional i++
JumpLineAlwaysSkips(skip) ==
  /\ Consume(2)
  /\ peeked' = IF skip THEN "skipped" ELSE "left"
  /\ UNCHANGED <<isCallgrind, events, positions, currentFile, currentFunction,
                 currentObjectFile, pendingCallFile, pendingCallFunction,
                 filesData, fileOrder, summary, rowTotals, conformant, fileCoverage, phase>>

JumpLine(skip) ==
  /\ IF skip
       THEN Consume(2) /\ peeked' = "skipped"
       ELSE Consume(1) /\ peeked' = "left"
  /\ UNCHANGED <<isCallgrind, events, positions, currentFile, currentFunction,
                 currentObjectFile, pendingCallFile, pendingCallFunction,
                 filesData, fileOrder, summary, rowTotals, conformant, fileCoverage, phase>>

\* summary: v1 v2 ...   parseInt(summaryValues[idx] || '0') per event
SummaryLine(vals) ==
  /\ Consume(1)
  /\ summary' = [e \in Range(events) |->
                   LET idx == CHOOSE i \in DOMAIN events : events[i] = e
                   IN IF idx <= Len(vals) THEN ParseInt(vals[idx]) ELSE 0]
  /\ peeked' = "no"
  /\ UNCHANGED <<isCallgrind, events, positions, currentFile, currentFunction,
                 currentObjectFile, pendingCallFile, pendingCallFunction,
                 filesData, fileOrder, rowTotals, conformant, fileCoverage, phase>>

EventIndex(e) == CHOOSE i \in DOMAIN events : events[i] = e

\* eventCounts of a row, by event index
LineCounts(row) == [i \in DOMAIN events |-> ParseInt(row[i + 1])]
InstrCounts(row) ==
  [i \in DOMAIN events |-> IF i <= Len(row) - 2 THEN ParseInt(row[i + 2]) ELSE 0]

\* eventCounts.some(count => count > 0)
Executed(counts) == \E i \in DOMAIN counts : Positive(counts[i])

\* totals[this.events[idx]] += count   (undefined + count is NaN)
AddTotals(totals, counts) ==
  [e \in DOMAIN totals \cup Range(events) |->
     IF e \in Range(events)
       THEN Plus(IF e \in DOMAIN totals THEN totals[e] ELSE NaN,
                 counts[EventIndex(e)])
       ELSE totals[e]]

\* line-only row: the line record is replaced, the totals are incremented
LineOnlyRow(fd, row) ==
  LET lineNum == ParseInt(row[1])
      counts == LineCounts(row)
      lineData == [ev |-> [e \in Range(events) |-> counts[EventIndex(e)]],
                   executed |-> Executed(counts)]
  IN [fd EXCEPT !.lines = Put(@, lineNum, lineData),
                !.totals = AddTotals(@, counts)]

\* instruction-level row: the line record is aggregated, the PC record is
\* replaced, the totals are incremented
InstrRow(fd, row) ==
  LET pc == row[1].v
      lineNum == ParseInt(row[2])
      counts == InstrCounts(row)
      evs == [e \in Range(events) |-> counts[EventIndex(e)]]
      old == IF lineNum \in DOMAIN fd.lines
               THEN fd.lines[lineNum]
               ELSE [ev |-> EmptyMap, executed |-> FALSE]
      newLine == [ev |-> [e \in DOMAIN old.ev \cup Range(events) |->
                            IF e \in Range(events)
                              THEN Plus(OrZero(old.ev, e), evs[e])
                              ELSE old.ev[e]],
                  executed |-> old.executed \/ Executed(counts)]
      pcLineData == [pc |-> pc, line |-> lineNum, events |-> evs,
                     executed |-> Executed(counts)]
  IN [fd EXCEPT
        !.lines = Put(@, lineNum, newLine),
        !.pcData = IF @.defined
                     THEN [defined |-> TRUE,
                           order |-> IF pc \in DOMAIN @.at THEN @.order
                                     ELSE Append(@.order, pc),
                           at |-> Put(@.at, pc, pcLineData)]
                     ELSE @,
        !.totals = AddTotals(@, counts)]

\* history: a row of the grammar for the current header,  LINE c1..cn  or
\* PC LINE c1..ck . (conformant also asks that a row's function was declared
\* by a fn= line under the row's file.)
WellFormed(row) ==
  /\ \A i \in DOMAIN row : i > 1 => row[i].k = "int"
  /\ IF InstrMode
       THEN PcPrefixed(row) /\ Len(row) >= 2 /\ Len(row) - 2 <= Len(events)
       ELSE row[1].k = "int" /\ Len(row) = Len(events) + 1

RowCounts(row) == IF InstrMode THEN InstrCounts(row) ELSE LineCounts(row)

\* a data row
DataRow(row) ==
  /\ Consume(1)
  /\ PcPrefixed(row) => peeked # "left"
  /\ peeked' = "no"
  /\ conformant' =
       (conformant /\ (currentFile # None /\ currentFunction # None
                         => WellFormed(row) /\ HasRecord))
  /\ rowTotals' =
       IF currentFile # None /\ currentFunction # None /\ WellFormed(row)
         THEN [e \in DOMAIN rowTotals \cup Range(events) |->
                 IF e \in Range(events)
                   THEN (IF e \in DOMAIN rowTotals THEN rowTotals[e] ELSE 0)
                        + RowCounts(row)[EventIndex(e)]
                   ELSE rowTotals[e]]
         ELSE rowTotals
  /\ filesData' =
       IF currentFile # None /\ currentFunction # None
         THEN IF InstrMode
                THEN IF PcPrefixed(row) /\ Len(row) >= 3 /\ HasRecord
                       THEN SetCurrentRecord(InstrRow(CurrentRecord, row))
                       ELSE filesData   \* not a PC row, or TypeError caught
                ELSE IF Len(row) >= Len(events) + 1 /\ HasRecord
                       THEN SetCurrentRecord(LineOnlyRow(CurrentRecord, row))
                       ELSE filesData   \* too few columns, or TypeError caught
         ELSE filesData
  /\ UNCHANGED <<isCallgrind, events, positions, currentFile, currentFunction,
                 currentObjectFile, pendingCallFile, pendingCallFunction,
                 fileOrder, summary, fileCoverage, phase>>

----------------------------------------------------------------------------
(* Post-processing of parse *)

RECURSIVE Ascending(_)
Ascending(S) ==
  IF S = {} THEN <<>>
  ELSE LET m == CHOOSE x \in S : \A y \in S : x <= y
       IN <<m>> \o Ascending(S \ {m})

\* Object.entries(funcData.lines): integer keys ascending, then "NaN"
LineKeys(lines) ==
  Ascending(DOMAIN lines \ {NaN})
    \o (IF NaN \in DOMAIN lines THEN <<NaN>> ELSE <<>>)

SelectKeys(lines, exec) ==
  SelectSeq(LineKeys(lines), LAMBDA k : lines[k].executed = exec)

\* coveredLines / uncoveredLines / coveragePercentage of one function
FunctionCoverage(fd) ==
  LET cov == SelectKeys(fd.lines, TRUE)
      unc == SelectKeys(fd.lines, FALSE)
      total == Len(cov) + Len(unc)
  IN [fd EXCEPT !.coveredLines = cov,
                !.uncoveredLines = unc,
                !.coveragePercentage =
                   IF total > 0 THEN Ratio(Len(cov) * 100, total) ELSE Ratio(0, 1)]

\* coveredLineNumbers.size + uncoveredLineNumbers.size
CompiledLineCount(cov, unc) == Cardinality(cov) + Cardinality(unc)

\* the FileCoverage of one file (the sorted arrays of line numbers as sets)
FileCoverageOf(fileInfo) ==
  LET fns == [n \in DOMAIN fileInfo.functions |->
                FunctionCoverage(fileInfo.functions[n])]
      cov == UNION {Range(fns[n].coveredLines) : n \in DOMAIN fns}
      unc == UNION {Range(fns[n].uncoveredLines) : n \in DOMAIN fns}
      compiled == CompiledLineCount(cov, unc)
  IN [compiledLines |-> compiled,
      coveredLines |-> Cardinality(cov),
      coveragePercentage |->
         IF compiled > 0 THEN Ratio(Cardinality(cov) * 100, compiled)
         ELSE Ratio(0, 1),
      coveredLineNumbers |-> cov,
      uncoveredLineNumbers |-> unc,
      functions |-> fns,
      fnOrder |-> fileInfo.fnOrder,
      objectFile |-> fileInfo.objectFile]

\* the end of the input: post-processing, then parse returns
Finish ==
  /\ phase = "parsing"
  /\ UNCHANGED <<treeVars, viewVars>>
  /\ phase' = "parsed"
  /\ fileCoverage' = [f \in DOMAIN filesData |-> FileCoverageOf(filesData[f])]
  /\ filesData' = [f \in DOMAIN filesData |->
                     [filesData[f] EXCEPT
                        !.functions = [n \in DOMAIN @ |-> FunctionCoverage(@[n])]]]
  /\ UNCHANGED <<nRead, lineLimit, isCallgrind, events, positions, currentFile,
                 currentFunction, currentObjectFile, pendingCallFile,
                 pendingCallFunction, fileOrder, summary, peeked, rowTotals,
                 conformant>>

----------------------------------------------------------------------------
(* call-tree-viewer.tsx: the call tree built from the parsed profile *)

RECURSIVE Concat(_)
Concat(ss) == IF ss = <<>> THEN <<>> ELSE Head(ss) \o Concat(Tail(ss))

\* functionMap: the keys `${filename}:${funcName}` in insertion order
FunctionKeys ==
  Concat([i \in DOMAIN fileOrder |->
            [j \in DOMAIN fileCoverage[fileOrder[i]].fnOrder |->
               <<fileOrder[i], fileCoverage[fileOrder[i]].fnOrder[j]>>]])

FuncData(key) == fileCoverage[key[1]].functions[key[2]]

\* call.targetFile || filename, call.targetFunction
ChildKey(call, fileName) ==
  <<IF call.targetFile # None THEN call.targetFile ELSE fileName,
    call.targetFunction>>

\* the keys of childToParentMap
CalledFunctions ==
  UNION {{ChildKey(FuncData(k).calls[i], k[1]) :
            i \in {j \in DOMAIN FuncData(k).calls :
                     FuncData(k).calls[j].targetFunction # None}} :
         k \in Range(FunctionKeys)}

RootFunctionKeys ==
  SelectSeq(FunctionKeys, LAMBDA k : k \notin CalledFunctions)

\* funcData.totals?.Cy || funcData.totals?.Ir || 0
SelfCycles(totals) ==
  IF "Cy" \in DOMAIN totals /\ totals["Cy"] # NaN /\ totals["Cy"] # 0
    THEN totals["Cy"]
  ELSE IF "Ir" \in DOMAIN totals /\ totals["Ir"] # NaN /\ totals["Ir"] # 0
    THEN totals["Ir"]
  ELSE 0

CreateNode(key, fd, nid) ==
  [id |-> nid,
   stub |-> FALSE,
   functionName |-> key[2],
   fileName |-> key[1],
   pcStart |-> IF Len(fd.pcData.order) > 0 THEN fd.pcData.order[1] ELSE NoPc,
   pcEnd |-> IF Len(fd.pcData.order) > 0
               THEN fd.pcData.order[Len(fd.pcData.order)] ELSE NoPc,
   callCount |-> 1,
   totalTime |-> SelfCycles(fd.totals),
   selfTime |-> SelfCycles(fd.totals),
   children |-> <<>>,
   calls |-> fd.calls]

StubNode(call, targetFile, nid) ==
  [id |-> nid,
   stub |-> TRUE,
   functionName |-> call.targetFunction,
   fileName |-> targetFile,
   pcStart |-> NoPc,
   pcEnd |-> NoPc,
   callCount |-> call.count,
   totalTime |-> 0,
   selfTime |-> 0,
   children |-> <<>>,
   calls |-> <<>>]

\* buildTreeFromNode(functionKey, visited), with the nodeId counter passed
\* along: [ok, node, nid], ok = FALSE for null
RECURSIVE BuildTreeFromNode(_, _, _)
RECURSIVE BuildChildren(_, _, _, _, _)
BuildTreeFromNode(key, visited, nid) ==
  IF key \in visited \/ key \notin Range(FunctionKeys)
    THEN [ok |-> FALSE, node |-> <<>>, nid |-> nid]
    ELSE LET fd == FuncData(key)
             r == BuildChildren(key[1], fd.calls, 1, visited \cup {key}, nid + 1)
         IN [ok |-> TRUE,
             node |-> [CreateNode(key, fd, nid) EXCEPT !.children = r.children],
             nid |-> r.nid]

\* funcInfo.funcData.calls.forEach(...) from the i-th call on; every child is
\* built with its own copy of visited
BuildChildren(fileName, calls, i, visited, nid) ==
  IF i > Len(calls) THEN [children |-> <<>>, nid |-> nid]
  ELSE IF calls[i].targetFunction = None
    THEN BuildChildren(fileName, calls, i + 1, visited, nid)
  ELSE LET childKey == ChildKey(calls[i], fileName)
           r == BuildTreeFromNode(childKey, visited, nid)
           child == IF r.ok
                      THEN [r.node EXCEPT !.callCount = calls[i].count]
                      ELSE StubNode(calls[i], childKey[1], nid)
           rest == BuildChildren(fileName, calls, i + 1, visited,
                                 IF r.ok THEN r.nid ELSE nid + 1)
       IN [children |-> <<child>> \o rest.children, nid |-> rest.nid]

\* rootFunctionKeys.forEach: the root trees with selfTime > 0
RECURSIVE BuildRoots(_, _, _)
BuildRoots(keys, i, nid) ==
  IF i > Len(keys) THEN <<>>
  ELSE LET r == BuildTreeFromNode(keys[i], {}, nid)
       IN (IF r.ok /\ r.node.selfTime > 0 THEN <<r.node>> ELSE <<>>)
            \o BuildRoots(keys, i + 1, r.nid)

\* every node of a tree, in depth-first order
RECURSIVE Preorder(_)
Preorder(node) ==
  <<node>> \o Concat([i \in DOMAIN node.children |-> Preorder(node.children[i])])

NodeKey(node) == <<node.fileName, node.functionName>>

\* addToNodeMap over the roots: the first node of every key
RECURSIVE FirstOfKey(_, _)
FirstOfKey(nodes, seen) ==
  IF nodes = <<>> THEN <<>>
  ELSE IF NodeKey(Head(nodes)) \in seen THEN FirstOfKey(Tail(nodes), seen)
  ELSE <<Head(nodes)>> \o FirstOfKey(Tail(nodes), seen \cup {NodeKey(Head(nodes))})

RECURSIVE SumInclusive(_)
SumInclusive(calls) ==
  IF calls = <<>> THEN 0
  ELSE (IF "inclusiveEvents" \in DOMAIN Head(calls)
          THEN SelfCycles(Head(calls).inclusiveEvents)
          ELSE 0) + SumInclusive(Tail(calls))

\* calculateTotalCycles(node): the new node.totalTime
CalculateTotalCycles(node) == node.selfTime + SumInclusive(node.calls)

\* nodeMap.forEach(calculateTotalCycles): the nodes of the map are nodes of
\* the trees, ids names them
RECURSIVE UpdateTotals(_, _)
UpdateTotals(node, ids) ==
  [node EXCEPT
     !.totalTime = IF node.id \in ids THEN CalculateTotalCycles(node) ELSE @,
     !.children = [i \in DOMAIN @ |-> UpdateTotals(@[i], ids)]]

BuildCallTree ==
  /\ phase = "parsed"
  /\ phase' = "built"
  /\ LET roots == BuildRoots(RootFunctionKeys, 1, 0)
         all == Concat([i \in DOMAIN roots |-> Preorder(roots[i])])
         firsts == FirstOfKey(all, {})
         ids == {firsts[i].id : i \in DOMAIN firsts}
         done == [i \in DOMAIN roots |-> UpdateTotals(roots[i], ids)]
         flat == Concat([i \in DOMAIN done |-> Preorder(done[i])])
     IN /\ rootNodes' = done
        /\ nodeMap' = FirstOfKey(flat, {})
  /\ UNCHANGED <<nRead, lineLimit, isCallgrind, events, positions, currentFile,
                 currentFunction, currentObjectFile, pendingCallFile,
                 pendingCallFunction, filesData, fileOrder, summary, peeked,
                 rowTotals, conformant, fileCoverage>>
  /\ UNCHANGED viewVars

----------------------------------------------------------------------------
(* EntryPointMatcher (lib/entry-point-matcher.ts) *)

\* a Map: its entries in insertion order; set() of a present key keeps its place
MapHas(m, k) == \E i \in DOMAIN m : m[i].key = k
MapGet(m, k) == m[CHOOSE i \in DOMAIN m : m[i].key = k].val
MapSet(m, k, v) ==
  IF MapHas(m, k)
    THEN [i \in DOMAIN m |-> IF m[i].key = k THEN [key |-> k, val |-> v]
                             ELSE m[i]]
    ELSE Append(m, [key |-> k, val |-> v])

\* a Set: its members in insertion order
SetAdd(members, x) ==
  IF x \in Range(members) THEN members ELSE Append(members, x)

\* no node (null)
NullNode == [functionName |-> <<>>, pcStart |-> <<>>, pcEnd |-> <<>>]

\* this.index === null
NullIndex ==
  [built |-> FALSE, byName |-> <<>>, byPcStart |-> <<>>,
   byPartialName |-> <<>>, pcRanges |-> <<>>]

Min(a, b) == IF a <= b THEN a ELSE b

\* name.substring(0, len) for len = from .. to
Prefixes(name, from, to) ==
  IF to < from THEN <<>>
  ELSE [i \in 1..(to - from + 1) |-> Substring(name, 0, from + i - 1)]

\* functionName.replace(/^_+/, '')
RECURSIVE StripUnderscores(_)
StripUnderscores(name) ==
  IF name # <<>> /\ Head(name) = "_" THEN StripUnderscores(Tail(name))
  ELSE name

IsWordChar(c) == c \in Range(LowerLetters) \cup DecimalDigits

\* nameLower.split(/[^a-z0-9]+/), without the empty pieces (which the length
\* test of buildIndex drops)
RECURSIVE SplitWords(_, _, _)
SplitWords(name, word, acc) ==
  LET closed == IF word = <<>> THEN acc ELSE Append(acc, word)
  IN IF name = <<>> THEN closed
     ELSE IF IsWordChar(Head(name))
            THEN SplitWords(Tail(name), Append(word, Head(name)), acc)
            ELSE SplitWords(Tail(name), <<>>, closed)

\* the partial-name keys of one word: the word and its prefixes of 3..6
WordTerms(word) ==
  IF Len(word) >= 3
    THEN <<word>> \o Prefixes(word, 3, Min(Len(word), 6))
    ELSE <<>>

\* byPartialName.get(term).add(node) for each term, in order
RECURSIVE AddPartials(_, _, _)
AddPartials(m, terms, node) ==
  IF terms = <<>> THEN m
  ELSE LET t == Head(terms)
           members == IF MapHas(m, t) THEN MapGet(m, t) ELSE <<>>
       IN AddPartials(MapSet(m, t, SetAdd(members, node)), Tail(terms), node)

\* the body of nodeMap.forEach in buildIndex
IndexEntry(idx, node) ==
  LET nameLower == ToLowerCase(node.functionName)
      nameWithoutPrefix == ToLowerCase(StripUnderscores(node.functionName))
      byName1 == MapSet(idx.byName, nameLower, node)
      words == SplitWords(nameLower, <<>>, <<>>)
      terms == Prefixes(nameLower, 3, Min(Len(nameLower), 8))
                 \o Concat([i \in DOMAIN words |-> WordTerms(words[i])])
      start == ParseInt16(node.pcStart)
      end == ParseInt16(node.pcEnd)
  IN [built |-> TRUE,
      byName |-> IF nameWithoutPrefix # nameLower
                   THEN MapSet(byName1, nameWithoutPrefix, node)
                   ELSE byName1,
      byPartialName |-> AddPartials(idx.byPartialName, terms, node),
      byPcStart |-> IF node.pcStart # <<>>
                      THEN MapSet(idx.byPcStart, ToLowerCase(node.pcStart), node)
                      ELSE idx.byPcStart,
      pcRanges |-> IF /\ node.pcStart # <<>>
                      /\ node.pcEnd # <<>>
                      /\ start # NaN
                      /\ end # NaN
                      /\ end >= start
                     THEN Append(idx.pcRanges,
                                 [start |-> start, end |-> end, node |-> node])
                     ELSE idx.pcRanges]

\* pcRanges.sort((a, b) => a.start - b.start): a stable sort
RECURSIVE SortRanges(_)
SortRanges(ranges) ==
  IF ranges = <<>> THEN <<>>
  ELSE LET r == ranges[Len(ranges)]
           sorted == SortRanges(SubSeq(ranges, 1, Len(ranges) - 1))
           pos == Cardinality({i \in DOMAIN sorted : sorted[i].start <= r.start})
       IN SubSeq(sorted, 1, pos) \o <<r>> \o SubSeq(sorted, pos + 1, Len(sorted))

RECURSIVE IndexEntries(_, _)
IndexEntries(idx, nodes) ==
  IF nodes = <<>> THEN idx
  ELSE IndexEntries(IndexEntry(idx, Head(nodes)), Tail(nodes))

BuildIndexOf(nodes) ==
  LET idx == IndexEntries([NullIndex EXCEPT !.built = TRUE], nodes)
  IN [idx EXCEPT !.pcRanges = SortRanges(idx.pcRanges)]

\* findByPcRange: binary search over the ranges sorted by start
RECURSIVE FindByPcRange(_, _, _, _)
FindByPcRange(ranges, address, left, right) ==
  IF left > right THEN NullNode
  ELSE LET mid == (left + right) \div 2
           range == ranges[mid + 1]
       IN IF address >= range.start /\ address <= range.end THEN range.node
          ELSE IF address < range.start
                 THEN FindByPcRange(ranges, address, left, mid - 1)
                 ELSE FindByPcRange(ranges, address, mid + 1, right)

\* trimmed.match(/^(0x)?[0-9a-fA-F]+$/)
AllHex(text) == text # <<>> /\ \A i \in DOMAIN text : IsHexChar(text[i])
IsHexAddress(text) ==
  \/ AllHex(text)
  \/ StartsWith(text, <<"0", "x">>) /\ AllHex(SubSeq(text, 3, Len(text)))

\* the first entry of byName whose key starts with the text
FirstStartingWith(byName, text) ==
  LET hits == {i \in DOMAIN byName : StartsWith(byName[i].key, text)}
  IN IF hits = {} THEN NullNode
     ELSE byName[CHOOSE i \in hits : \A j \in hits : i <= j].val

\* step 3 of findEntryNode: the partial-name index, then starts-with
FindByPartialName(idx, trimmedLower) ==
  IF Len(trimmedLower) >= 3
    THEN IF MapHas(idx.byPartialName, trimmedLower)
           THEN Head(MapGet(idx.byPartialName, trimmedLower))
           ELSE FirstStartingWith(idx.byName, trimmedLower)
    ELSE NullNode

FindEntryNodeOf(idx, text) ==
  LET trimmed == Trim(text)
      trimmedLower == ToLowerCase(trimmed)
      pcAddress == IF StartsWith(trimmed, <<"0", "x">>) THEN trimmed
                   ELSE <<"0", "x">> \o trimmed
      addr == ParseInt16(pcAddress)
  IN IF ~idx.built \/ text = <<>> THEN NullNode
     ELSE IF MapHas(idx.byName, trimmedLower)
            THEN MapGet(idx.byName, trimmedLower)
     ELSE IF IsHexAddress(trimmed)
            THEN IF MapHas(idx.byPcStart, ToLowerCase(pcAddress))
                   THEN MapGet(idx.byPcStart, ToLowerCase(pcAddress))
                 ELSE IF addr # NaN
                   THEN FindByPcRange(idx.pcRanges, addr, 0,
                                      Len(idx.pcRanges) - 1)
                 ELSE FindByPartialName(idx, trimmedLower)
     ELSE FindByPartialName(idx, trimmedLower)

BuildIndex ==
  /\ index' = BuildIndexOf(matcherNodes)
  /\ UNCHANGED <<matcherNodes, entryPoint, entryNode>>
  /\ UNCHANGED <<parserVars, treeVars, walkVars, searchVars, serviceVars>>

FindEntryNode(text) ==
  /\ entryPoint' = text
  /\ entryNode' = FindEntryNodeOf(index, text)
  /\ UNCHANGED <<matcherNodes, index>>
  /\ UNCHANGED <<parserVars, treeVars, walkVars, searchVars, serviceVars>>

----------------------------------------------------------------------------
(* call-tree-viewer.tsx: buildTreeFromNode, one step at a time.  functionMap
   maps each function key to the child keys of its calls (the key built from
   call.targetFile || fileName and call.targetFunction). *)

\* one activation: entered once past the visited and functionMap tests; next
\* is the index of the call the forEach handles next
Frame(key, visited) ==
  [key |-> key, visited |-> visited, entered |-> FALSE, next |-> 1]

Top == walkStack[Len(walkStack)]
Pop == SubSeq(walkStack, 1, Len(walkStack) - 1)
SetTop(frame) == [walkStack EXCEPT ![Len(walkStack)] = frame]

\* the activation entered with visited.add(functionKey) left out
EnterWithoutAdd(frame) == [frame EXCEPT !.entered = TRUE]

\* visited.add(functionKey), then createNode
Enter(frame) ==
  [frame EXCEPT !.entered = TRUE, !.visited = @ \cup {frame.key}]

\* new Set(visited): each child starts from the keys on the path to it
ChildVisited(frame) == frame.visited

WalkStep ==
  /\ walkSteps' = walkSteps + 1
  /\ UNCHANGED <<functionMap, parserVars, treeVars, matcherVars, searchVars,
                 serviceVars>>

\* rootFunctionKeys.forEach(rootKey => buildTreeFromNode(rootKey))
StartRoot ==
  /\ walkStack = <<>>
  /\ rootQueue # <<>>
  /\ walkStack' = <<Frame(Head(rootQueue), {})>>
  /\ rootQueue' = Tail(rootQueue)
  /\ WalkStep
  /\ UNCHANGED <<expansions, cuts>>

\* if (visited.has(functionKey)) return null
CutRepeat ==
  /\ walkStack # <<>>
  /\ ~Top.entered
  /\ Top.key \in Top.visited
  /\ walkStack' = Pop
  /\ cuts' = cuts + 1
  /\ WalkStep
  /\ UNCHANGED <<rootQueue, expansions>>

\* if (!funcInfo) return null
MissingFunction ==
  /\ walkStack # <<>>
  /\ ~Top.entered
  /\ Top.key \notin Top.visited
  /\ Top.key \notin DOMAIN functionMap
  /\ walkStack' = Pop
  /\ WalkStep
  /\ UNCHANGED <<rootQueue, expansions, cuts>>

\* const node = createNode(...)
ExpandNode ==
  /\ walkStack # <<>>
  /\ ~Top.entered
  /\ Top.key \notin Top.visited
  /\ Top.key \in DOMAIN functionMap
  /\ walkStack' = SetTop(Enter(Top))
  /\ expansions' = expansions + 1
  /\ WalkStep
  /\ UNCHANGED <<rootQueue, cuts>>

\* buildTreeFromNode(childKey, new Set(visited)) for the next call
Descend ==
  /\ walkStack # <<>>
  /\ Top.entered
  /\ Top.next <= Len(functionMap[Top.key])
  /\ walkStack' =
       Append(SetTop([Top EXCEPT !.next = @ + 1]),
              Frame(functionMap[Top.key][Top.next], ChildVisited(Top)))
  /\ WalkStep
  /\ UNCHANGED <<rootQueue, expansions, cuts>>

\* return node
ReturnNode ==
  /\ walkStack # <<>>
  /\ Top.entered
  /\ Top.next > Len(functionMap[Top.key])
  /\ walkStack' = Pop
  /\ WalkStep
  /\ UNCHANGED <<rootQueue, expansions, cuts>>

----------------------------------------------------------------------------
(* CallTreeSearchEngine (lib/call-tree-search.ts).  A node is known by its
   id; termToNodes maps a term to the ids of its nodes, nodeToTerms (which
   nothing reads) a node id to its terms. *)

\* the index of the constructor: two empty maps
EmptySearchIndex == [termToNodes |-> EmptyMap, nodeToTerms |-> EmptyMap]

\* addToIndex(term, node)
AddToIndex(idx, term, id) ==
  [termToNodes |->
     Put(idx.termToNodes, term,
         (IF term \in DOMAIN idx.termToNodes THEN idx.termToNodes[term]
          ELSE {}) \cup {id}),
   nodeToTerms |->
     Put(idx.nodeToTerms, id,
         (IF id \in DOMAIN idx.nodeToTerms THEN idx.nodeToTerms[id]
          ELSE {}) \cup {term})]

\* .replace(/([a-z])([A-Z])/g, '$1 $2').replace(/_/g, ' ')
RECURSIVE SpaceWords(_)
SpaceWords(name) ==
  IF name = <<>> THEN <<>>
  ELSE LET c == IF Head(name) = "_" THEN " " ELSE Head(name)
       IN IF /\ Len(name) >= 2
             /\ name[1] \in Range(LowerLetters)
             /\ name[2] \in Range(UpperLetters)
            THEN <<c, " ">> \o SpaceWords(Tail(name))
            ELSE <<c>> \o SpaceWords(Tail(name))

IsAlnum(c) ==
  c \in Range(LowerLetters) \cup Range(UpperLetters) \cup DecimalDigits

\* .split(/[^a-zA-Z0-9]+/), without the empty pieces
RECURSIVE SplitAlnum(_, _, _)
SplitAlnum(name, word, acc) ==
  LET closed == IF word = <<>> THEN acc ELSE Append(acc, word)
  IN IF name = <<>> THEN closed
     ELSE IF IsAlnum(Head(name))
            THEN SplitAlnum(Tail(name), Append(word, Head(name)), acc)
            ELSE SplitAlnum(Tail(name), <<>>, closed)

\* the words of a name, of more than one character, in lower case
WordsOf(name) ==
  {ToLowerCase(w) :
     w \in {x \in Range(SplitAlnum(SpaceWords(name), <<>>, <<>>)) : Len(x) > 1}}

\* the terms indexNode files a name under
IndexTerms(name) ==
  LET lower == ToLowerCase(name)
      n == Len(lower)
  IN {lower}
       \cup WordsOf(name)
       \cup {Substring(lower, 0, len) : len \in 1..Min(n, 12)}
       \cup (IF n > 3
               THEN {Substring(lower, n - len, n) : len \in 3..Min(n, 8)}
               ELSE {})
       \cup (IF n <= 8
               THEN UNION {{Substring(lower, start, start + len) :
                              len \in 2..Min(4, n - start)} :
                           start \in 1..(n - 2)}
               ELSE {})

RECURSIVE AddTerms(_, _, _)
AddTerms(idx, terms, id) ==
  IF terms = {} THEN idx
  ELSE LET t == CHOOSE x \in terms : TRUE
       IN AddTerms(AddToIndex(idx, t, id), terms \ {t}, id)

\* indexNode(node, depth) and the forEach over a list of nodes; st carries the
\* index and the visited ids
RECURSIVE IndexNode(_, _, _)
RECURSIVE IndexNodes(_, _, _)
IndexNode(st, node, depth) ==
  IF depth > 100 \/ node.id \in st.visited THEN st
  ELSE IndexNodes([idx |-> AddTerms(st.idx, IndexTerms(node.functionName),
                                    node.id),
                   visited |-> st.visited \cup {node.id}],
                  node.children, depth + 1)

IndexNodes(st, nodes, depth) ==
  IF nodes = <<>> THEN st
  ELSE IndexNodes(IndexNode(st, Head(nodes), depth), Tail(nodes), depth)

BuildSearchIndexOf(nodes) ==
  IndexNodes([idx |-> EmptySearchIndex, visited |-> {}], nodes, 0).idx

\* the nodes filed under the terms
NodesOfTerms(idx, terms) == UNION {idx.termToNodes[t] : t \in terms}

\* search without its third pass (the terms that include the search term)
SearchOfWithoutSubstringPass(idx, term) ==
  LET termLower == Trim(ToLowerCase(term))
      indexed == DOMAIN idx.termToNodes
      direct == IF termLower \in indexed THEN idx.termToNodes[termLower]
                ELSE {}
      prefixed == IF Cardinality(direct) < 10
                    THEN direct \cup
                         NodesOfTerms(idx, {t \in indexed :
                                              StartsWith(t, termLower)})
                    ELSE direct
  IN IF term = <<>> \/ Trim(term) = <<>> THEN {} ELSE prefixed

SearchOf(idx, term) ==
  LET termLower == Trim(ToLowerCase(term))
      indexed == DOMAIN idx.termToNodes
      direct == IF termLower \in indexed THEN idx.termToNodes[termLower]
                ELSE {}
      prefixed == IF Cardinality(direct) < 10
                    THEN direct \cup
                         NodesOfTerms(idx, {t \in indexed :
                                              StartsWith(t, termLower)})
                    ELSE direct
      included == IF Cardinality(prefixed) < 5
                    THEN prefixed \cup
                         NodesOfTerms(idx, {t \in indexed :
                                              /\ ~StartsWith(t, termLower)
                                              /\ Includes(t, termLower)})
                    ELSE prefixed
  IN IF term = <<>> \/ Trim(term) = <<>> THEN {} ELSE included

BuildSearchIndex ==
  /\ searchIndex' = BuildSearchIndexOf(searchNodes)
  /\ UNCHANGED <<searchNodes, searchTerm, searchResults>>
  /\ UNCHANGED <<parserVars, treeVars, matcherVars, walkVars, serviceVars>>

Search(term) ==
  /\ searchTerm' = term
  /\ searchResults' = SearchOf(searchIndex, term)
  /\ UNCHANGED <<searchNodes, searchIndex>>
  /\ UNCHANGED <<parserVars, treeVars, matcherVars, walkVars, serviceVars>>

----------------------------------------------------------------------------
(* getAssemblyCode (app/actions/assembly.ts).  One action per synchronous
   stretch of the async function: the call up to `test -r`, the stretch after
   `test -r` settled, the stretch after objdump settled.  Error messages are
   kept up to the part the handlers look at. *)

PermissionDeniedText ==
  <<"P", "e", "r", "m", "i", "s", "s", "i", "o", "n", " ", "d", "e", "n",
    "i", "e", "d">>
FormatNotRecognizedText ==
  <<"F", "i", "l", "e", " ", "f", "o", "r", "m", "a", "t", " ", "n", "o",
    "t", " ", "r", "e", "c", "o", "g", "n", "i", "z", "e", "d">>
CannotAccessText ==
  <<"C", "a", "n", "n", "o", "t", " ", "a", "c", "c", "e", "s", "s", " ",
    "f", "i", "l", "e">>
PermissionDeniedMessage ==
  <<"P", "e", "r", "m", "i", "s", "s", "i", "o", "n", " ", "d", "e", "n",
    "i", "e", "d", ":", " ", "C", "a", "n", "n", "o", "t", " ", "r", "e",
    "a", "d">>
InvalidFormatMessage ==
  <<"I", "n", "v", "a", "l", "i", "d", " ", "f", "i", "l", "e", " ", "f",
    "o", "r", "m", "a", "t">>
ObjdumpNotFoundMessage ==
  <<"o", "b", "j", "d", "u", "m", "p", " ", "n", "o", "t", " ", "f", "o",
    "u", "n", "d">>
PermissionWhenAccessingText ==
  <<"P", "e", "r", "m", "i", "s", "s", "i", "o", "n", " ", "d", "e", "n",
    "i", "e", "d", " ", "w", "h", "e", "n", " ", "a", "c", "c", "e", "s",
    "s", "i", "n", "g", " ">>
CommandFailedText ==
  <<"C", "o", "m", "m", "a", "n", "d", " ", "f", "a", "i", "l", "e", "d",
    ":", " ">>
UnknownFileText == <<"?", "?", "?">>

\* AssemblyData | null
NullAssembly == [startAddress |-> <<>>, endAddress |-> <<>>, instructions |-> <<>>]

\* String.prototype.split('\n')
RECURSIVE SplitLines(_, _)
SplitLines(s, cur) ==
  IF s = <<>> THEN <<cur>>
  ELSE IF Head(s) = "\n" THEN <<cur>> \o SplitLines(Tail(s), <<>>)
  ELSE SplitLines(Tail(s), Append(cur, Head(s)))

\* the length of the longest prefix of s made of characters of the set
RECURSIVE RunLength(_, _)
RunLength(s, chars) ==
  IF s # <<>> /\ Head(s) \in chars THEN 1 + RunLength(Tail(s), chars) ELSE 0

\* line.match(/^\s*([0-9a-f]+):\s+(.+)$/) : the groups, or no match
MatchInstruction(line) ==
  LET t == SubSeq(line, RunLength(line, Whitespace) + 1, Len(line))
      h == RunLength(t, Range(HexDigits))
      r == SubSeq(t, h + 2, Len(t))        \* what follows the colon
      w == RunLength(r, Whitespace)
  IN IF h >= 1 /\ Len(t) > h /\ t[h + 1] = ":" /\ w >= 1 /\ Len(r) >= 2
       THEN [matched |-> TRUE,
             address |-> SubSeq(t, 1, h),
             text |-> IF w < Len(r) THEN SubSeq(r, w + 1, Len(r))
                      ELSE <<r[Len(r)]>>]
       ELSE [matched |-> FALSE, address |-> <<>>, text |-> <<>>]

\* the instructions parsed from the lines of stdout
RECURSIVE ParseInstructions(_)
ParseInstructions(lines) ==
  IF lines = <<>> THEN <<>>
  ELSE LET m == MatchInstruction(Head(lines))
       IN (IF m.matched
             THEN <<[pc |-> <<"0", "x">> \o m.address,
                     instruction |-> Trim(m.text)]>>
             ELSE <<>>) \o ParseInstructions(Tail(lines))

\* the error thrown inside the inner try, if any: a rejected exec, or one of
\* the two errors raised on stderr
InnerError(out) ==
  IF out.rejected
    THEN [thrown |-> TRUE, code |-> out.code,
          message |-> CommandFailedText \o out.stderr]
  ELSE IF Includes(out.stderr, PermissionDeniedText)
    THEN [thrown |-> TRUE, code |-> None, message |-> PermissionDeniedMessage]
  ELSE IF Includes(out.stderr, FormatNotRecognizedText)
    THEN [thrown |-> TRUE, code |-> None, message |-> InvalidFormatMessage]
  ELSE [thrown |-> FALSE, code |-> None, message |-> <<>>]

\* catch (execError): the message of the error it throws
Rethrown(err, objectFile) ==
  IF err.code = "ENOENT" THEN ObjdumpNotFoundMessage
  ELSE IF Includes(err.message, PermissionDeniedText)
    THEN PermissionWhenAccessingText \o objectFile
  ELSE err.message

\* the outer catch: the console.error it makes
OuterLog(objectFile, message) ==
  IF objectFile # <<>> /\ ~Includes(objectFile, UnknownFileText)
       /\ ~Includes(message, CannotAccessText)
    THEN <<"error">> ELSE <<>>

\* history: the kind of ending of a call
TestCause(readable) == IF readable THEN "pending" ELSE "unreadable"
ObjdumpCause(out) ==
  IF out.rejected /\ out.code = "ENOENT" THEN "toolMissing"
  ELSE IF Includes(out.stderr, FormatNotRecognizedText) THEN "invalidFormat"
  ELSE IF out.rejected \/ Includes(out.stderr, PermissionDeniedText) THEN "failed"
  ELSE IF Trim(out.stdout) = <<>> THEN "emptyOutput"
  ELSE "disassembled"

Returns(result, cause) ==
  /\ asmPc' = "returned"
  /\ asmResult' = result
  /\ asmCause' = cause
  /\ asmSeen' = Put(asmSeen, cause, result)

\* the call, up to the first await
GetAssemblyCode(objectFile, startAddress, endAddress) ==
  /\ asmPc \in {"idle", "returned"}
  /\ asmArgs' = [objectFile |-> objectFile, startAddress |-> startAddress,
                 endAddress |-> endAddress]
  /\ asmCaught' = <<>>
  /\ IF objectFile = <<>> \/ startAddress = <<>> \/ endAddress = <<>>
       THEN /\ asmLog' = <<"error">>
            /\ Returns(NullAssembly, "missingParameter")
       ELSE /\ asmLog' = <<>>
            /\ asmPc' = "testing"
            /\ asmResult' = NullAssembly
            /\ asmCause' = "pending"
            /\ asmSeen' = asmSeen
  /\ UNCHANGED <<parserVars, treeVars, matcherVars, walkVars, searchVars, pathVars,
               viewerVars>>

\* `test -r` settled
TestResolved(readable) ==
  /\ asmPc = "testing"
  /\ IF readable
       THEN /\ asmPc' = "running"
            /\ UNCHANGED <<asmResult, asmCaught, asmLog, asmCause, asmSeen>>
       ELSE LET message == CannotAccessText \o <<":", " ">> \o asmArgs.objectFile
            IN /\ asmCaught' = message
               /\ asmLog' = asmLog \o OuterLog(asmArgs.objectFile, message)
               /\ Returns(NullAssembly, TestCause(readable))
  /\ UNCHANGED asmArgs
  /\ UNCHANGED <<parserVars, treeVars, matcherVars, walkVars, searchVars, pathVars,
               viewerVars>>

\* objdump settled
ObjdumpResolved(out) ==
  /\ asmPc = "running"
  /\ LET err == InnerError(out)
         stderrLog == IF ~out.rejected /\ out.stderr # <<>>
                        THEN <<"error">> ELSE <<>>
     IN IF err.thrown
          THEN LET message == Rethrown(err, asmArgs.objectFile)
               IN /\ asmCaught' = message
                  /\ asmLog' = asmLog \o stderrLog \o <<"error">>
                                 \o OuterLog(asmArgs.objectFile, message)
                  /\ Returns(NullAssembly, ObjdumpCause(out))
          ELSE /\ asmCaught' = asmCaught
               /\ IF out.stdout = <<>> \/ Trim(out.stdout) = <<>>
                    THEN /\ asmLog' = asmLog \o stderrLog \o <<"warn">>
                         /\ Returns([startAddress |-> asmArgs.startAddress,
                                     endAddress |-> asmArgs.endAddress,
                                     instructions |-> <<>>],
                                    ObjdumpCause(out))
                    ELSE /\ asmLog' = asmLog \o stderrLog
                         /\ Returns([startAddress |-> asmArgs.startAddress,
                                     endAddress |-> asmArgs.endAddress,
                                     instructions |->
                                       ParseInstructions(
                                         SplitLines(out.stdout, <<>>))],
                                    ObjdumpCause(out))
  /\ UNCHANGED asmArgs
  /\ UNCHANGED <<parserVars, treeVars, matcherVars, walkVars, searchVars, pathVars,
               viewerVars>>

----------------------------------------------------------------------------
(* resolveSourcePath (lib/path-utils.ts).  Paths and keys are strings; the
   contents of a file is a string, "" for an empty file. *)

\* filePath.split('/').filter(part => part.length > 0)
RECURSIVE PathParts(_, _, _)
PathParts(p, part, acc) ==
  LET closed == IF part = <<>> THEN acc ELSE Append(acc, part)
  IN IF p = <<>> THEN closed
     ELSE IF Head(p) = "/" THEN PathParts(Tail(p), <<>>, closed)
     ELSE PathParts(Tail(p), Append(part, Head(p)), acc)

\* parts.join('/')
RECURSIVE Join(_)
Join(parts) ==
  IF parts = <<>> THEN <<>>
  ELSE IF Len(parts) = 1 THEN parts[1]
  ELSE parts[1] \o <<"/">> \o Join(Tail(parts))

\* parts.slice(i)  and  parts.slice(-n)
Slice(parts, i) == SubSeq(parts, i + 1, Len(parts))
LastParts(parts, n) == SubSeq(parts, Len(parts) - n + 1, Len(parts))

\* sourceFiles[key]: the content, or undefined
SourceGet(files, key) == IF MapHas(files, key) THEN MapGet(files, key) ELSE None

\* a content in a condition: undefined and "" are falsy
Truthy(v) == v # None /\ v # ""

\* localStorage.getItem: null when there is no item, else the stored string;
\* in a condition null and "" are falsy
NoItem == [stored |-> FALSE, value |-> <<>>]
Item(text) == [stored |-> TRUE, value |-> text]
SubdirSet(item) == item.stored /\ item.value # <<>>

\* the candidate keys tried under the src subdirectory, in order
SubdirCandidates(pathParts, subdir) ==
  LET n == Len(pathParts)
      suffixes == [i \in 1..(IF n >= 1 THEN n - 1 ELSE 0) |->
                     Join(Slice(pathParts, i - 1))]
  IN [i \in DOMAIN suffixes |-> subdir \o <<"/">> \o suffixes[i]]
     \o <<subdir \o <<"/">> \o pathParts[n]>>
     \o [i \in DOMAIN suffixes |->
           <<"s", "r", "c", "/">> \o subdir \o <<"/">> \o suffixes[i]]

\* the first candidate that sourceFiles holds a truthy content for, or 0
FirstFound(files, candidates) ==
  IF \E i \in DOMAIN candidates : Truthy(SourceGet(files, candidates[i]))
    THEN CHOOSE i \in DOMAIN candidates :
           /\ Truthy(SourceGet(files, candidates[i]))
           /\ \A j \in 1..(i - 1) : ~Truthy(SourceGet(files, candidates[j]))
    ELSE 0

\* the tests of the loop over Object.entries(sourceFiles)
KeyMatches(key, pathParts) ==
  LET keyParts == PathParts(key, <<>>, <<>>)
  IN \/ keyParts # <<>> /\ keyParts[Len(keyParts)] = pathParts[Len(pathParts)]
     \/ /\ Len(pathParts) >= 2
        /\ \E m \in 2..Min(Len(pathParts), Len(keyParts)) :
             Join(LastParts(pathParts, m)) = Join(LastParts(keyParts, m))

FirstMatching(files, pathParts) ==
  IF \E i \in DOMAIN files : KeyMatches(files[i].key, pathParts)
    THEN CHOOSE i \in DOMAIN files :
           /\ KeyMatches(files[i].key, pathParts)
           /\ \A j \in 1..(i - 1) : ~KeyMatches(files[j].key, pathParts)
    ELSE 0

ResolveSourcePathOf(filePath, files, subdir) ==
  IF Truthy(SourceGet(files, filePath)) THEN SourceGet(files, filePath)
  ELSE LET pathParts == PathParts(filePath, <<>>, <<>>)
       IN IF pathParts = <<>> THEN None
          ELSE LET candidates == IF SubdirSet(subdir)
                                   THEN SubdirCandidates(pathParts, subdir.value)
                                   ELSE <<>>
                   found == FirstFound(files, candidates)
                   matching == FirstMatching(files, pathParts)
               IN IF found # 0 THEN SourceGet(files, candidates[found])
                  ELSE IF matching # 0 THEN files[matching].val
                  ELSE None

ResolveSourcePath(filePath) ==
  /\ pathArg' = filePath
  /\ pathResult' = ResolveSourcePathOf(filePath, sourceFiles, srcSubdir)
  /\ UNCHANGED <<sourceFiles, srcSubdir>>
  /\ UNCHANGED <<parserVars, treeVars, matcherVars, walkVars, searchVars, asmVars,
               viewerVars>>

\* sidebar: localStorage.setItem('profiler-src-subdir', srcSubdir)
SetSrcSubdir(subdir) ==
  /\ srcSubdir' = subdir
  /\ UNCHANGED <<sourceFiles, pathArg, pathResult>>
  /\ UNCHANGED <<parserVars, treeVars, matcherVars, walkVars, searchVars, asmVars,
               viewerVars>>

----------------------------------------------------------------------------
(* AssemblyViewer (components/assembly-viewer.tsx): the effect that runs
   fetchAssembly when the props objectFile or pcData change, up to its await,
   and the stretch after the awaited getAssemblyForFunction settled *)

\* assemblyCache.size > 10
CacheLimit == 10

\* the props without an object file
NoSelection == [objectFile |-> "", pcData |-> <<>>]

\* cacheKeyRef.current === '' ; a cache key is the object file with the
\* sorted, joined keys of pcData, that is, with the set of its PCs
NoKey == <<"", {}>>
CacheKey(sel) == <<sel.objectFile, Range(sel.pcData)>>

\* assemblyData: null, or the AssemblyData fetched for a key
NoData == [loaded |-> FALSE, key |-> NoKey]
DataOf(key) == [loaded |-> TRUE, key |-> key]

\* assemblyCache.get(cacheKey): undefined is falsy as null is
CacheGet(key) ==
  IF MapHas(assemblyCache, key) THEN MapGet(assemblyCache, key) ELSE NoData

\* assemblyCache.set(cacheKey, data), then the size limit
CacheSet(key, data) ==
  LET set == MapSet(assemblyCache, key, data)
  IN IF Len(set) > CacheLimit THEN Tail(set) ELSE set

\* err.message || 'Failed to load assembly code', for an error without message
FailedToLoad == "Failed to load assembly code"

Without(calls, i) == SubSeq(calls, 1, i - 1) \o SubSeq(calls, i + 1, Len(calls))

\* the effect: fetchAssembly() up to its return or its await
FetchAssembly(sel) ==
  LET cacheKey == CacheKey(sel)
      cached == CacheGet(cacheKey)
  IN /\ selection' = sel
     /\ IF sel.objectFile = "" \/ sel.pcData = <<>>
          THEN /\ assemblyData' = NoData
               /\ UNCHANGED <<loading, error, cacheKeyRef, inFlight>>
        ELSE IF cacheKeyRef = cacheKey /\ assemblyData.loaded
          THEN UNCHANGED <<assemblyData, loading, error, cacheKeyRef, inFlight>>
        ELSE IF cached.loaded
          THEN /\ assemblyData' = cached
               /\ cacheKeyRef' = cacheKey
               /\ UNCHANGED <<loading, error, inFlight>>
        ELSE /\ Len(inFlight) < MaxInFlight
             /\ loading' = TRUE
             /\ error' = None
             /\ inFlight' = Append(inFlight, cacheKey)
             /\ UNCHANGED <<assemblyData, cacheKeyRef>>
     /\ UNCHANGED assemblyCache
     /\ UNCHANGED <<parserVars, treeVars, matcherVars, walkVars, searchVars,
                    asmVars, pathVars>>

\* the i-th call in flight resolved, with AssemblyData or with null
FetchResolved(i, found) ==
  /\ i \in DOMAIN inFlight
  /\ LET cacheKey == inFlight[i]
         data == IF found THEN DataOf(cacheKey) ELSE NoData
     IN /\ assemblyData' = data
        /\ assemblyCache' = CacheSet(cacheKey, data)
        /\ cacheKeyRef' = cacheKey
  /\ loading' = FALSE
  /\ inFlight' = Without(inFlight, i)
  /\ UNCHANGED <<selection, error>>
  /\ UNCHANGED <<parserVars, treeVars, matcherVars, walkVars, searchVars,
                 asmVars, pathVars>>

\* the i-th call in flight rejected
FetchRejected(i) ==
  /\ i \in DOMAIN inFlight
  /\ error' = FailedToLoad
  /\ loading' = FALSE
  /\ inFlight' = Without(inFlight, i)
  /\ UNCHANGED <<selection, assemblyData, cacheKeyRef, assemblyCache>>
  /\ UNCHANGED <<parserVars, treeVars, matcherVars, walkVars, searchVars,
                 asmVars, pathVars>>

----------------------------------------------------------------------------
(* The parser's specification *)

\* calls=N : the counts N of the input
CallCountToks == {IntTok(2)}
\* the lines that follow a calls= directive: the edge's row  PC LINE COUNT*,
\* or a line without a PC
CallRows ==
  {<<PcTok(a), IntTok(1)>> \o cs :
     a \in PCs, cs \in {c \in CountSeqs : \A i \in DOMAIN c : c[i].k = "int"}}
   \cup {<<IntTok(1)>>, PlainRow}
SummaryLines == {<<IntTok(n)>> : n \in 0..MaxSummary}

\* the rows a file of the current positions mode is fed with: PC rows (and one
\* row without PC) under "positions: instr", rows without PC otherwise
InputRows == IF InstrMode THEN PcRows \cup {PlainRow} ELSE LineRows

ParserStart ==
  /\ phase = "parsing"
  /\ nRead = 0
  /\ isCallgrind = FALSE
  /\ events = <<>>
  /\ positions = "line"
  /\ currentFile = None
  /\ currentFunction = None
  /\ currentObjectFile = None
  /\ pendingCallFile = None
  /\ pendingCallFunction = None
  /\ filesData = EmptyMap
  /\ fileOrder = <<>>
  /\ summary = EmptyMap
  /\ peeked = "no"
  /\ rowTotals = EmptyMap
  /\ conformant = TRUE
  /\ fileCoverage = EmptyMap

ParserInit == ParserStart /\ lineLimit = MaxLines

TreeIdle ==
  /\ rootNodes = <<>>
  /\ nodeMap = <<>>

MatcherIdle ==
  /\ matcherNodes = <<>>
  /\ index = NullIndex
  /\ entryPoint = <<>>
  /\ entryNode = NullNode

WalkIdle ==
  /\ functionMap = EmptyMap
  /\ rootQueue = <<>>
  /\ walkStack = <<>>
  /\ expansions = 0
  /\ cuts = 0
  /\ walkSteps = 0

SearchIdle ==
  /\ searchNodes = <<>>
  /\ searchIndex = EmptySearchIndex
  /\ searchTerm = <<>>
  /\ searchResults = {}

AssemblyIdle ==
  /\ asmPc = "idle"
  /\ asmArgs = [objectFile |-> <<>>, startAddress |-> <<>>, endAddress |-> <<>>]
  /\ asmResult = NullAssembly
  /\ asmCaught = <<>>
  /\ asmLog = <<>>
  /\ asmCause = "pending"
  /\ asmSeen = EmptyMap

PathIdle ==
  /\ sourceFiles = <<>>
  /\ srcSubdir = NoItem
  /\ pathArg = <<>>
  /\ pathResult = None

ViewerIdle ==
  /\ selection = NoSelection
  /\ assemblyData = NoData
  /\ loading = FALSE
  /\ error = None
  /\ cacheKeyRef = NoKey
  /\ assemblyCache = <<>>
  /\ inFlight = <<>>

ServiceIdle == AssemblyIdle /\ PathIdle /\ ViewerIdle

Init == ParserInit /\ TreeIdle /\ MatcherIdle /\ WalkIdle /\ SearchIdle /\ ServiceIdle

Next ==
  \/ FormatLine
  \/ IgnoredLine
  \/ \E v \in Vocabularies : EventsLine(v)
  \/ \E p \in {"line", "instr"} : PositionsLine(p)
  \/ \E f \in Files : FlLine(f)
  \/ \E n \in Fns : FnLine(n)
  \/ \E f \in Files : CfiLine(f)
  \/ \E n \in Fns : CfnLine(n)
  \/ \E c \in CallCountToks, r \in CallRows : CallsLine(c, r)
  \/ \E b \in BOOLEAN : JumpLine(b)
  \/ \E vs \in SummaryLines : SummaryLine(vs)
  \/ \E r \in InputRows : DataRow(r)
  \/ Finish
  \/ BuildCallTree

vars == <<parserVars, treeVars, viewVars>>

Spec == Init /\ [][Next]_vars

----------------------------------------------------------------------------
(* The specification of instruction-level profiles: longer inputs made of the
   header lines, fl=, fn=, calls= and data rows only, and their call tree *)

InstrInit ==
  /\ ParserStart
  /\ lineLimit = MaxInstrLines
  /\ TreeIdle
  /\ MatcherIdle
  /\ WalkIdle
  /\ SearchIdle
  /\ ServiceIdle

InstrNext ==
  \/ FormatLine
  \/ \E v \in Vocabularies : EventsLine(v)
  \/ PositionsLine("instr")
  \/ \E f \in Files : FlLine(f)
  \/ \E n \in Fns : FnLine(n)
  \/ \E c \in CallCountToks, r \in CallRows : CallsLine(c, r)
  \/ \E r \in InputRows : DataRow(r)
  \/ Finish
  \/ BuildCallTree

SpecInstr == InstrInit /\ [][InstrNext]_vars

----------------------------------------------------------------------------
(* The specification of branch directives: inputs of one function made of
   fl=, fn=, cfn=, jump=/jcnd= and data rows *)

JumpInit ==
  /\ ParserStart
  /\ lineLimit = MaxJumpLines
  /\ TreeIdle
  /\ MatcherIdle
  /\ WalkIdle
  /\ SearchIdle
  /\ ServiceIdle

JumpNext ==
  \/ FlLine("a.c")
  \/ FnLine("f")
  \/ CfnLine("g")
  \/ \E b \in BOOLEAN : JumpLine(b)
  \/ \E r \in InputRows : DataRow(r)
  \/ Finish

SpecJump == JumpInit /\ [][JumpNext]_vars

----------------------------------------------------------------------------
(* The entry-point matcher's specification: buildIndex over a node map, then
   findEntryNode of entry points *)

\* function names of the indexed nodes
MatcherNames == {<<"F", "n">>, <<"_", "f", "n">>, <<"a", "b", "c", "d">>}

\* createNode: pcStart and pcEnd are the first and the last key of pcData (in
\* insertion order, so that pcEnd may lie below pcStart), both empty without
\* PC data
PcSpans ==
  {[s |-> <<>>, e |-> <<>>], [s |-> HexString(MaxAddr), e |-> HexString(1)]}
    \cup {[s |-> HexString(p[1]), e |-> HexString(p[2])] :
            p \in {q \in (1..MaxAddr) \X (1..MaxAddr) : q[1] <= q[2]}}

MatcherNodeSet ==
  {[functionName |-> n, pcStart |-> p.s, pcEnd |-> p.e] :
     n \in MatcherNames, p \in PcSpans}

\* the values of a nodeMap, in insertion order; one node per function
NodeMaps ==
  {nm \in UNION {[1..n -> MatcherNodeSet] : n \in 0..MaxNodes} :
     \A i, j \in DOMAIN nm : i # j => nm[i].functionName # nm[j].functionName}

\* the entry points typed in
EntryPoints ==
  {HexString(a) : a \in 1..(MaxAddr + 1)}
    \cup {<<"2">>, <<"f", "n">>, <<"_", "F", "N">>, <<" ", "f", "n">>,
          <<"a", "b", "c">>, <<>>}

MatcherInit ==
  /\ ParserInit
  /\ TreeIdle
  /\ WalkIdle
  /\ SearchIdle
  /\ ServiceIdle
  /\ matcherNodes \in NodeMaps
  /\ index = NullIndex
  /\ entryPoint = <<>>
  /\ entryNode = NullNode

MatcherNext ==
  \/ BuildIndex
  \/ \E text \in EntryPoints : FindEntryNode(text)

SpecMatcher == MatcherInit /\ [][MatcherNext]_vars

----------------------------------------------------------------------------
(* The tree walk's specification: buildTreeFromNode from every root of a
   call graph *)

WalkKeys == <<"a.c:f", "a.c:g", "a.c:h">>

\* the functions the profile has a record of: all of them, or all but the
\* last (which is then external to the profile)
RecordedSets == {Range(WalkKeys), Range(WalkKeys) \ {WalkKeys[Len(WalkKeys)]}}

CallLists == UNION {[1..n -> Range(WalkKeys)] : n \in 0..MaxFanout}

\* the keys no call names, in the order of functionMap
RootKeysOf(fm) ==
  SelectSeq(WalkKeys,
            LAMBDA k : /\ k \in DOMAIN fm
                       /\ \A c \in DOMAIN fm : k \notin Range(fm[c]))

WalkInit ==
  /\ ParserInit
  /\ TreeIdle
  /\ MatcherIdle
  /\ SearchIdle
  /\ ServiceIdle
  /\ functionMap \in UNION {[D -> CallLists] : D \in RecordedSets}
  /\ rootQueue = RootKeysOf(functionMap)
  /\ walkStack = <<>>
  /\ expansions = 0
  /\ cuts = 0
  /\ walkSteps = 0

WalkNext ==
  \/ StartRoot
  \/ CutRepeat
  \/ MissingFunction
  \/ ExpandNode
  \/ Descend
  \/ ReturnNode

SpecWalk == WalkInit /\ [][WalkNext]_vars

----------------------------------------------------------------------------
(* The search engine's specification: buildIndex over a list of nodes, then
   search of terms *)

\* function names of the indexed nodes ("fn= f" names a function " f")
SearchNames == {<<"f">>, <<" ", "f">>, <<"f", "b">>}

\* the nodes of a node map: ids in order; when nested, the first node has the
\* others as its children
SearchNodesOf(names, nested) ==
  LET leaf(i) == [id |-> i, functionName |-> names[i], children |-> <<>>]
  IN [i \in DOMAIN names |->
        IF nested /\ i = 1
          THEN [leaf(1) EXCEPT
                  !.children = [j \in 1..(Len(names) - 1) |-> leaf(j + 1)]]
          ELSE leaf(i)]

SearchInputs ==
  {SearchNodesOf(names, nested) :
     names \in UNION {[1..n -> SearchNames] : n \in 0..MaxSearchNodes},
     nested \in BOOLEAN}

\* the terms typed in
SearchTerms == SearchNames \cup {<<"F">>, <<>>, <<" ">>}

SearchInit ==
  /\ ParserInit
  /\ TreeIdle
  /\ MatcherIdle
  /\ WalkIdle
  /\ ServiceIdle
  /\ searchNodes \in SearchInputs
  /\ searchIndex = EmptySearchIndex
  /\ searchTerm = <<>>
  /\ searchResults = {}

SearchNext ==
  \/ BuildSearchIndex
  \/ \E term \in SearchTerms : Search(term)

SpecSearch == SearchInit /\ [][SearchNext]_vars

----------------------------------------------------------------------------
(* The specification of getAssemblyCode: calls one after the other, each with
   arguments and outcomes of `test -r` and objdump drawn from small sets *)

ObjectFiles == {<<>>, <<"a", ".", "o">>, UnknownFileText}
Addresses == {<<>>, HexString(1)}
Stdouts ==
  {<<>>, <<" ", "\n">>,
   <<" ", "1", "0", ":", "\t", "n", "o", "p", " ", "\n", "f", ":", "\n",
     "1", "1", ":", " ", " ">>}
Stderrs ==
  {<<>>, <<"w", "a", "r", "n">>,
   <<"a", ".", "o", ":", " ">> \o PermissionDeniedText,
   <<"a", ".", "o", ":", " ">> \o FormatNotRecognizedText}
ExecCodes == {"ENOENT", "1"}
ObjdumpOutcomes ==
  {[rejected |-> FALSE, code |-> None, stdout |-> o, stderr |-> e] :
     o \in Stdouts, e \in Stderrs}
  \cup {[rejected |-> TRUE, code |-> c, stdout |-> <<>>, stderr |-> e] :
          c \in ExecCodes, e \in Stderrs}

AssemblyInit ==
  /\ ParserInit
  /\ TreeIdle
  /\ MatcherIdle
  /\ WalkIdle
  /\ SearchIdle
  /\ AssemblyIdle
  /\ PathIdle
  /\ ViewerIdle

AssemblyNext ==
  \/ \E o \in ObjectFiles, a \in Addresses, b \in Addresses :
       GetAssemblyCode(o, a, b)
  \/ \E r \in BOOLEAN : TestResolved(r)
  \/ \E out \in ObjdumpOutcomes : ObjdumpResolved(out)

SpecAssembly == AssemblyInit /\ [][AssemblyNext]_vars

----------------------------------------------------------------------------
(* The specification of resolveSourcePath: a record of source files, the src
   subdirectory chosen in the sidebar, and paths to resolve *)

SourcePaths ==
  {<<"a", "/", "b">>, <<"/", "a", "/", "b">>, <<"c", "/", "a", "/", "b">>,
   <<"b">>, <<"/">>}
SourceKeys ==
  {<<"a", "/", "b">>, <<"b">>, <<"x", "/", "b">>,
   <<"d", "/", "a", "/", "b">>, <<"d", "/", "b">>,
   <<"d", "/", "c", "/", "a", "/", "b">>,
   <<"s", "r", "c", "/", "d", "/", "a", "/", "b">>}
Contents == {"", "x", "y"}
Subdirs == {Item(<<>>), Item(<<"d">>)}

SourceMaps ==
  {m \in UNION {[1..n -> [key : SourceKeys, val : Contents]] : n \in 0..MaxSources} :
     \A i, j \in DOMAIN m : i # j => m[i].key # m[j].key}

PathInit ==
  /\ ParserInit
  /\ TreeIdle
  /\ MatcherIdle
  /\ WalkIdle
  /\ SearchIdle
  /\ AssemblyIdle
  /\ ViewerIdle
  /\ sourceFiles \in SourceMaps
  /\ srcSubdir = NoItem
  /\ pathArg = <<>>
  /\ pathResult = None

PathNext ==
  \/ \E p \in SourcePaths : ResolveSourcePath(p)
  \/ \E d \in Subdirs : SetSrcSubdir(d)

SpecPath == PathInit /\ [][PathNext]_vars

----------------------------------------------------------------------------
(* The specification of the assembly viewer: changes of the selected function
   and settlements of the fetches in flight, in any order *)

ViewerObjectFiles == {"", "a.o"}
ViewerPcData ==
  {<<>>, <<"0x10">>, <<"0x10", "0x14">>, <<"0x14", "0x10">>}
Selections ==
  {[objectFile |-> o, pcData |-> p] : o \in ViewerObjectFiles, p \in ViewerPcData}

ViewerInit ==
  /\ ParserInit
  /\ TreeIdle
  /\ MatcherIdle
  /\ WalkIdle
  /\ SearchIdle
  /\ ServiceIdle

ViewerNext ==
  \/ \E sel \in Selections : FetchAssembly(sel)
  \/ \E i \in 1..MaxInFlight, found \in BOOLEAN : FetchResolved(i, found)
  \/ \E i \in 1..MaxInFlight : FetchRejected(i)

SpecViewer == ViewerInit /\ [][ViewerNext]_vars

----------------------------------------------------------------------------
(* Claims about the parser and the call tree (specification Spec) *)

Returned == phase \in {"parsed", "built"}

\* the functions of the returned profile, as <<file, name>>
ParsedFunctions ==
  {<<f, n>> : f \in DOMAIN fileCoverage, n \in Fns} \cap
  {k \in Files \X Fns : k[1] \in DOMAIN fileCoverage
                        /\ k[2] \in DOMAIN fileCoverage[k[1]].functions}

RECURSIVE SumOf(_, _)
\* the sum of val[k] over the keys k of S
SumOf(val, S) ==
  IF S = {} THEN 0
  ELSE LET k == CHOOSE x \in S : TRUE
       IN Plus(val[k], SumOf(val, S \ {k}))

\* the sum of the line records of fd for event e
LineSum(fd, e) ==
  SumOf([k \in DOMAIN fd.lines |->
           IF e \in DOMAIN fd.lines[k].ev THEN fd.lines[k].ev[e] ELSE 0],
        DOMAIN fd.lines)

\* C1: after parse of a profile of the grammar, every function's totals[e]
\* is the sum of its line records' counts of e, for every event e of the
\* vocabulary.
C1_TotalsAreLineSums ==
  (Returned /\ conformant) =>
    \A k \in ParsedFunctions :
      \A e \in Range(events) : FuncData(k).totals[e] = LineSum(FuncData(k), e)

\* the summary: line is present and equals, per event, the sum of the
\* profile's exclusive data rows
SummaryMatchesRows ==
  /\ events # <<>>
  /\ DOMAIN summary = Range(events)
  /\ \A e \in Range(events) :
        summary[e] = (IF e \in DOMAIN rowTotals THEN rowTotals[e] ELSE 0)

\* C2: when the summary: line equals the sum of the exclusive data rows,
\* summaryTotals[e] is the sum of totals[e] over all functions of all files.
C2_SummaryIsSumOfTotals ==
  (Returned /\ conformant /\ SummaryMatchesRows) =>
    \A e \in Range(events) :
      summary[e] = SumOf([k \in ParsedFunctions |-> FuncData(k).totals[e]],
                         ParsedFunctions)

\* C3: for every parsed file, compiledLines is the number of distinct line
\* numbers of coveredLineNumbers \cup uncoveredLineNumbers, and
\* coveragePercentage is |coveredLineNumbers| / that number * 100 (0 when 0).
C3_CompiledLinesAreDistinct ==
  (Returned /\ conformant) =>
    \A f \in DOMAIN fileCoverage :
      LET fc == fileCoverage[f]
          distinct == Cardinality(fc.coveredLineNumbers \cup fc.uncoveredLineNumbers)
      IN /\ fc.compiledLines = distinct
         /\ RatioEq(fc.coveragePercentage,
                    IF distinct > 0
                      THEN Ratio(Cardinality(fc.coveredLineNumbers) * 100, distinct)
                      ELSE Ratio(0, 1))

\* C4: parse does not return a profile when a data row was consumed and no
\* events: directive was seen (the vocabulary is empty and a function holds
\* a line record).
C4_NoVocabularyFails ==
  Returned =>
    ~(events = <<>> /\ \E k \in ParsedFunctions : DOMAIN FuncData(k).lines # {})

\* a non-integer field in the row
Malformed(row) == \E i \in DOMAIN row : row[i].k = "bad"

\* C5: a data row with a non-integer field leaves every line record, PC
\* record and total as it was.
C5_MalformedRowSkipped ==
  [][\A r \in Rows : (Malformed(r) /\ DataRow(r)) => filesData' = filesData]_vars

\* C6: parse never throws.
C6_NeverThrows == phase # "threw"

\* the primary event: Cy if the vocabulary has it, else Ir
PrimaryIndex ==
  IF \E i \in DOMAIN events : events[i] = "Cy" THEN EventIndex("Cy")
  ELSE IF \E i \in DOMAIN events : events[i] = "Ir" THEN EventIndex("Ir")
  ELSE 0

\* the primary-event count of the row  PC LINE c1 ..  that followed calls=
PrimaryCount(row) ==
  IF PrimaryIndex > 0 /\ PrimaryIndex <= Len(row) - 2
    THEN ParseInt(row[PrimaryIndex + 2]) ELSE 0

RECURSIVE EdgeSum(_)
EdgeSum(calls) ==
  IF calls = <<>> THEN 0
  ELSE PrimaryCount(Head(calls).row) + EdgeSum(Tail(calls))

AllTreeNodes == Concat([i \in DOMAIN rootNodes |-> Preorder(rootNodes[i])])

\* C10: every node of the built tree has totalTime = selfTime + the sum over
\* its function's call edges of the primary-event count of the edge's row.
C10_TotalTimeAddsEdgeRows ==
  phase = "built" =>
    \A i \in DOMAIN AllTreeNodes :
      AllTreeNodes[i].totalTime =
        AllTreeNodes[i].selfTime + EdgeSum(AllTreeNodes[i].calls)

\* the (file, function) pairs no call edge names as its target
Uncalled ==
  {k \in Range(FunctionKeys) :
     \A c \in Range(FunctionKeys) :
       \A i \in DOMAIN FuncData(c).calls :
         LET e == FuncData(c).calls[i]
         IN e.targetFunction = None \/ ChildKey(e, c[1]) # k}

\* C11: the roots of the built call graph are exactly the (file, function)
\* pairs that no call edge targets, whatever their exclusive cost.
C11_RootsAreUncalled ==
  (phase = "built" /\ conformant)
    => {NodeKey(rootNodes[i]) : i \in DOMAIN rootNodes} = Uncalled

\* C12: calls=N followed by a data row, while a current file and function
\* are set, appends exactly one edge to the current function, with the
\* pending cfi (absent if none), the pending cfn, count N and the PC of the
\* row; the records of all other functions keep their edges.
C12_CallsAppendsOneEdge ==
  [][\A c \in CallCountToks, r \in CallRows :
       (CallsLine(c, r) /\ HasRecord /\ WellFormed(r))
         => LET old == CurrentRecord.calls
                new == filesData'[currentFile].functions[currentFunction].calls
            IN /\ filesData' = SetCurrentRecord([CurrentRecord EXCEPT !.calls = new])
               /\ Len(new) = Len(old) + 1
               /\ SubSeq(new, 1, Len(old)) = old
               /\ new[Len(new)].targetFile = pendingCallFile
               /\ new[Len(new)].targetFunction = pendingCallFunction
               /\ new[Len(new)].count = ParseInt(c)
               /\ PcPrefixed(r) => new[Len(new)].sourcePc = r[1].v]_vars

\* C13: in instruction-level mode every row  PC LINE c1..ck  with
\* 0 <= k <= |events| is recorded: afterwards the function has a PC record
\* for PC holding the given count for the first k events and 0 for the
\* others, and a line record for LINE with an integer for every event.
C13_InstrRowRecorded ==
  [][\A r \in PcRows :
       (DataRow(r) /\ InstrMode /\ HasRecord /\ WellFormed(r))
         => LET fd == filesData'[currentFile].functions[currentFunction]
                pc == r[1].v
                lineNum == ParseInt(r[2])
            IN /\ pc \in DOMAIN fd.pcData.at
               /\ \A i \in DOMAIN events :
                    fd.pcData.at[pc].events[events[i]] =
                      (IF i <= Len(r) - 2 THEN ParseInt(r[i + 2]) ELSE 0)
               /\ lineNum \in DOMAIN fd.lines
               /\ \A i \in DOMAIN events :
                    /\ events[i] \in DOMAIN fd.lines[lineNum].ev
                    /\ fd.lines[lineNum].ev[events[i]] # NaN]_vars

\* C17: fn=NAME for a (current file, NAME) pair that already has a record
\* only moves the current-function pointer: the record's lines, PC records,
\* totals and call edges, and every other record, stay as they were.
C17_FnKeepsExistingRecord ==
  [][\A n \in Fns :
       (/\ FnLine(n)
        /\ conformant
        /\ currentFile # None
        /\ n \in DOMAIN filesData[currentFile].functions)
       => /\ currentFunction' = n
          /\ filesData' = filesData]_vars

\* C18: in instruction-level mode a row for a PC the function already has a
\* record for adds to it: for every event the record then holds the sum of
\* the counts of the rows, and executed is true iff some row had a count > 0
\* (stated for one more row of the same PC; specification SpecInstr).
C18_SamePcAccumulates ==
  [][\A r \in PcRows :
       (/\ DataRow(r)
        /\ InstrMode /\ conformant /\ HasRecord
        /\ WellFormed(r) /\ Len(r) >= 3
        /\ r[1].v \in DOMAIN CurrentRecord.pcData.at)
       => LET old == CurrentRecord.pcData.at[r[1].v]
              new == filesData'[currentFile].functions[currentFunction]
                       .pcData.at[r[1].v]
              counts == InstrCounts(r)
          IN /\ \A i \in DOMAIN events :
                  new.events[events[i]] = old.events[events[i]] + counts[i]
             /\ new.executed = (old.executed \/ Executed(counts))]_vars

\* C19: a row naming a source line the function already has a record for
\* adds to it, in line-only mode as in instruction-level mode: for every
\* event the line record then holds the sum of the counts of the rows, and
\* its executed flag is the OR of the rows' flags (stated for one more row
\* of the same line).
C19_SameLineAccumulates ==
  [][\A r \in Rows :
       LET lineNum == IF InstrMode THEN ParseInt(r[2]) ELSE ParseInt(r[1])
       IN (/\ DataRow(r)
           /\ conformant /\ HasRecord
           /\ WellFormed(r)
           /\ lineNum \in DOMAIN CurrentRecord.lines)
          => LET old == CurrentRecord.lines[lineNum]
                 new == filesData'[currentFile].functions[currentFunction]
                          .lines[lineNum]
                 counts == RowCounts(r)
             IN /\ \A i \in DOMAIN events :
                     new.ev[events[i]] = old.ev[events[i]] + counts[i]
                /\ new.executed = (old.executed \/ Executed(counts))]_vars

\* C20: the event vocabulary is frozen once the header is over: an events:
\* line that comes after a body directive (fl=, fn=, a data row) leaves the
\* vocabulary, and with it the event keys and the column mapping of later
\* rows and of summary:, as they were.
C20_VocabularyFrozen ==
  [][\A v \in Vocabularies :
       (EventsLine(v) /\ conformant /\ ~InHeader) => events' = events]_vars

\* C21: every calls= directive consumes the pending call target: right after
\* a calls= line, whatever line follows it, the pending cfi and cfn are
\* cleared (so that no later edge takes its target from them).
C21_CallsClearsPending ==
  [][\A c \in CallCountToks, r \in CallRows :
       (CallsLine(c, r) /\ conformant /\ HasRecord)
         => /\ pendingCallFile' = None
            /\ pendingCallFunction' = None]_vars

\* C22: the counts of the data row that follows a calls= directive are
\* credited to the row's source line in the line records of the current
\* function: afterwards the line has a record, which holds for every event
\* what it held before plus the row's count (specification SpecInstr).
C22_CallRowCreditedToLine ==
  [][\A c \in CallCountToks, r \in CallRows :
       (/\ CallsLine(c, r)
        /\ conformant /\ HasRecord
        /\ WellFormed(r) /\ Len(r) >= 3)
       => LET lineNum == IF InstrMode THEN ParseInt(r[2]) ELSE ParseInt(r[1])
              counts == RowCounts(r)
              old == CurrentRecord.lines
              new == filesData'[currentFile].functions[currentFunction].lines
          IN /\ lineNum \in DOMAIN new
             /\ \A i \in DOMAIN events :
                  /\ events[i] \in DOMAIN new[lineNum].ev
                  /\ new[lineNum].ev[events[i]] =
                       (IF lineNum \in DOMAIN old
                          THEN old[lineNum].ev[events[i]] ELSE 0) + counts[i]]_vars

ProfiledNodes ==
  LET all == Concat([i \in DOMAIN rootNodes |-> Preorder(rootNodes[i])])
  IN {all[i] : i \in {j \in DOMAIN all : ~all[j].stub}}

\* C24: when the vocabulary contains Cy, the exclusive total (selfTime) of
\* every node built for a profiled function is that function's Cy total,
\* also when that total is 0.
C24_SelfTimeIsCyTotal ==
  (phase = "built" /\ conformant /\ "Cy" \in Range(events))
    => \A node \in ProfiledNodes :
         LET totals == FuncData(NodeKey(node)).totals
         IN ("Cy" \in DOMAIN totals /\ totals["Cy"] # NaN)
              => node.selfTime = totals["Cy"]

\* C25: for every node built for a function with PC data, pcStart is the
\* numerically smallest and pcEnd the numerically largest PC of the
\* function's PC records, whatever the order of the PCs in the profile; a node
\* without PC data has neither.
C25_PcRangeIsMinMax ==
  (phase = "built" /\ conformant)
    => \A node \in ProfiledNodes :
         LET pcs == Range(FuncData(NodeKey(node)).pcData.order)
         IN IF pcs = {}
              THEN node.pcStart = NoPc /\ node.pcEnd = NoPc
              ELSE /\ node.pcStart \in pcs
                   /\ node.pcEnd \in pcs
                   /\ \A pc \in pcs : node.pcStart <= pc /\ pc <= node.pcEnd

\* C26: after the call graph is built, the node map has a node for every
\* function record of the profile, also for functions that lie only on
\* cycles and for functions whose only root has no exclusive cost.
C26_NodeMapCoversProfile ==
  (phase = "built" /\ conformant)
    => Range(FunctionKeys) \subseteq {NodeKey(nodeMap[i]) : i \in DOMAIN nodeMap}

----------------------------------------------------------------------------
(* Claims about the entry-point matcher (specification SpecMatcher) *)

\* pcStart <= a <= pcEnd
ContainsAddress(node, a) ==
  /\ node.pcStart # <<>>
  /\ node.pcEnd # <<>>
  /\ ParseInt16(node.pcStart) <= a
  /\ a <= ParseInt16(node.pcEnd)

\* the text is the name of an indexed node (in any case, with or without
\* leading underscores)
IsFunctionName(text) ==
  \E n \in Range(matcherNodes) :
    ToLowerCase(Trim(text)) \in
      {ToLowerCase(n.functionName),
       ToLowerCase(StripUnderscores(n.functionName))}

NonEmptyRanges ==
  \A n \in Range(matcherNodes) : ContainsAddress(n, ParseInt16(n.pcStart))

\* C7: over nodes with non-empty PC ranges (nested or overlapping) and for a
\* hexadecimal address a that is no function name, findEntryNode(a) returns
\* the node whose pcStart is a if there is one, otherwise a node whose range
\* contains a whenever there is one, and null only when no range contains a.
C7_AddressResolved ==
  [][\A text \in EntryPoints :
       (/\ FindEntryNode(text)
        /\ index.built
        /\ NonEmptyRanges
        /\ IsHexAddress(text)
        /\ ~IsFunctionName(text))
       => LET a == ParseInt16(text)
              nodes == Range(matcherNodes)
          IN /\ (\E n \in nodes : ParseInt16(n.pcStart) = a)
                  => /\ entryNode' \in nodes
                     /\ ParseInt16(entryNode'.pcStart) = a
             /\ (\E n \in nodes : ContainsAddress(n, a))
                  => /\ entryNode' \in nodes
                     /\ ContainsAddress(entryNode', a)
             /\ entryNode' = NullNode
                  => ~ \E n \in nodes : ContainsAddress(n, a)]_vars

\* C15: for the function name of an indexed node, written in any letter
\* case, findEntryNode returns a node whose lowercase function name is the
\* lowercase input, whatever other names are indexed and in whatever order.
C15_OwnNameFindsOwnNode ==
  [][\A text \in EntryPoints :
       (/\ FindEntryNode(text)
        /\ index.built
        /\ \E n \in Range(matcherNodes) :
             ToLowerCase(n.functionName) = ToLowerCase(text))
       => /\ entryNode' \in Range(matcherNodes)
          /\ ToLowerCase(entryNode'.functionName) = ToLowerCase(text)]_vars

\* C27: for an input of length >= 3, findEntryNode returns null only if the
\* input is no indexed exact name, matches no PC start and no PC range, is no
\* key of the partial-name index and no indexed name starts with it; also for
\* inputs made of hexadecimal digits only.
C27_NullOnlyWithoutMatch ==
  [][\A text \in EntryPoints :
       (/\ FindEntryNode(text)
        /\ index.built
        /\ Len(Trim(text)) >= 3
        /\ entryNode' = NullNode)
       => LET lower == ToLowerCase(Trim(text))
              pc == IF StartsWith(lower, <<"0", "x">>) THEN lower
                    ELSE <<"0", "x">> \o lower
          IN /\ ~MapHas(index.byName, lower)
             /\ IsHexAddress(lower)
                  => /\ ~MapHas(index.byPcStart, pc)
                     /\ \A i \in DOMAIN index.pcRanges :
                          ~(/\ index.pcRanges[i].start <= ParseInt16(pc)
                            /\ ParseInt16(pc) <= index.pcRanges[i].end)
             /\ ~MapHas(index.byPartialName, lower)
             /\ \A i \in DOMAIN index.byName :
                  ~StartsWith(index.byName[i].key, lower)]_vars

----------------------------------------------------------------------------
(* Claims about the tree walk (specification SpecWalk) *)

\* |nodes|: the number of (file, function) pairs of the profile
NumNodes == Cardinality(DOMAIN functionMap)
NumRoots == Len(RootKeysOf(functionMap))
\* the largest number of calls of one function
Fanout ==
  CHOOSE c \in 0..MaxFanout :
    /\ \A k \in DOMAIN functionMap : Len(functionMap[k]) <= c
    /\ \E k \in DOMAIN functionMap : Len(functionMap[k]) = c

WalkDone == walkStack = <<>> /\ rootQueue = <<>>

\* 1 + c + c^2 + ... + c^(n-1): the size of the largest tree of fan-out c
\* whose paths repeat no function out of n
RECURSIVE PathTreeSize(_, _)
PathTreeSize(c, n) == IF n = 0 THEN 0 ELSE 1 + c * PathTreeSize(c, n - 1)

ExpansionBound == NumRoots * PathTreeSize(Fanout, NumNodes)
StepBound == 3 * (NumRoots + Fanout * ExpansionBound)

----------------------------------------------------------------------------
(* Claims about the search engine (specification SpecSearch) *)

\* C9: search of the empty or a whitespace-only string returns the empty set,
\* and for every node n handed to buildIndex (name of at most 32 characters)
\* search(n.functionName) contains n, however many other nodes match.
C9_NameFindsNode ==
  [][\A term \in SearchTerms :
       (Search(term) /\ searchIndex = BuildSearchIndexOf(searchNodes))
       => /\ Trim(term) = <<>> => searchResults' = {}
          /\ \A i \in DOMAIN searchNodes :
               (searchNodes[i].functionName = term /\ Len(term) <= 32)
                 => searchNodes[i].id \in searchResults']_vars

\* the indexed nodes (by id) whose lowercase function name contains the text
IndexedContaining(text) ==
  LET all == Concat([i \in DOMAIN searchNodes |-> Preorder(searchNodes[i])])
  IN {all[i].id : i \in {j \in DOMAIN all :
                           /\ all[j].id \in DOMAIN searchIndex.nodeToTerms
                           /\ Includes(ToLowerCase(all[j].functionName), text)}}

\* C29 as stated: every node returned by search(q) has a lowercase function
\* name that contains the trimmed lowercase q, and whenever search(q) returns
\* fewer than 5 nodes the result is exactly the set of indexed nodes whose
\* lowercase function name contains it -- for every q, blank ones included.
C29_ResultIsSubstringMatch ==
  [][\A term \in SearchTerms :
       Search(term)
       => LET containing == IndexedContaining(Trim(ToLowerCase(term)))
          IN /\ searchResults' \subseteq containing
             /\ Cardinality(searchResults') < 5
                  => searchResults' = containing]_vars

\* C29, amended: the same for every q that is not empty or whitespace-only
\* (search of a blank q returns the empty set).
C29_NonBlankResultIsSubstringMatch ==
  [][\A term \in SearchTerms :
       (Search(term) /\ Trim(term) # <<>>)
       => LET containing == IndexedContaining(Trim(ToLowerCase(term)))
          IN /\ searchResults' \subseteq containing
             /\ Cardinality(searchResults') < 5
                  => searchResults' = containing]_vars

\* a search of "f" that returned fewer than 5 nodes, among them a node named
\* " f", which only the substring pass finds
C29_FoundBySubstring ==
  /\ searchTerm = <<"f">>
  /\ Cardinality(searchResults) < 5
  /\ \E i \in DOMAIN searchNodes :
       /\ searchNodes[i].functionName = <<" ", "f">>
       /\ searchNodes[i].id \in searchResults

----------------------------------------------------------------------------
(* Claims about getAssemblyCode (specification SpecAssembly) *)

\* C14: the failures of getAssemblyCode are told apart by what it returns:
\* an unreadable object file, a missing disassembler and an object file of
\* unrecognized format give three different results, and a successful run
\* with empty stdout gives an empty instruction list and no error.
C14_FailuresToldApart ==
  /\ \A c, d \in DOMAIN asmSeen \cap {"unreadable", "toolMissing", "invalidFormat"} :
       c # d => asmSeen[c] # asmSeen[d]
  /\ (asmPc = "returned" /\ asmCause = "emptyOutput")
       => /\ asmResult # NullAssembly
          /\ asmResult.instructions = <<>>
          /\ asmCaught = <<>>

----------------------------------------------------------------------------
(* Claims about resolveSourcePath (specification SpecPath) *)

\* the keys the lookup order names before the basename match: the path
\* itself, then the candidates under the src subdirectory when one is set
OrderedKeys(filePath) ==
  LET pathParts == PathParts(filePath, <<>>, <<>>)
  IN <<filePath>> \o
     (IF SubdirSet(srcSubdir) /\ pathParts # <<>>
        THEN SubdirCandidates(pathParts, srcSubdir.value) ELSE <<>>)

\* the entries whose key has the basename of the path
SameBasename(filePath) ==
  LET pathParts == PathParts(filePath, <<>>, <<>>)
  IN {i \in DOMAIN sourceFiles :
        LET keyParts == PathParts(sourceFiles[i].key, <<>>, <<>>)
        IN /\ pathParts # <<>>
           /\ keyParts # <<>>
           /\ keyParts[Len(keyParts)] = pathParts[Len(pathParts)]}

\* C16: resolveSourcePath returns the content of the first key of sourceFiles
\* in the order: the path itself; under a set subdirectory D, D/suffix from
\* the longest to 2 components, D/basename, src/D/suffix likewise; then a key
\* with the basename of the path; and null only when all of these miss.
C16_FirstHitInOrder ==
  [][\A p \in SourcePaths :
       ResolveSourcePath(p)
         => LET keys == OrderedKeys(p)
                hits == {i \in DOMAIN keys : MapHas(sourceFiles, keys[i])}
            IN IF hits # {}
                 THEN pathResult' =
                        MapGet(sourceFiles,
                               keys[CHOOSE i \in hits : \A j \in hits : i <= j])
                 ELSE IF SameBasename(p) # {}
                   THEN \E i \in SameBasename(p) : pathResult' = sourceFiles[i].val
                   ELSE pathResult' = None]_vars

----------------------------------------------------------------------------
(* Claims about the assembly viewer (specification SpecViewer) *)

\* the number of calls in flight for a key
InFlightFor(calls, key) == Cardinality({i \in DOMAIN calls : calls[i] = key})

\* C28: while a call of the disassembler for an (object file, PC set) key is
\* in flight, or its successful result is cached, no step starts another call
\* for that key.
C28_SingleFlight ==
  [][\A sel \in Selections :
       LET key == CacheKey(sel)
       IN (InFlightFor(inFlight, key) > 0 \/ CacheGet(key).loaded)
            => InFlightFor(inFlight', key) <= InFlightFor(inFlight, key)]_vars

\* C30: once every fetch in flight has settled, the assembly data shown is
\* the data of the (object file, PC set) selected last, never the data of an
\* earlier selection.
C30_ShowsLatestSelection ==
  (/\ inFlight = <<>>
   /\ selection.objectFile # ""
   /\ selection.pcData # <<>>
   /\ ~loading
   /\ error = None
   /\ assemblyData.loaded)
    => assemblyData.key = CacheKey(selection)

====
